---- MODULE Spec2Model ----
(***************************************************************************)
(* Ledger-consistency core of budget_api: transactions, their lines and    *)
(* line-tag links, validated against the accounts, categories, payees and  *)
(* tags of the owning budget.  Every request runs in one database session  *)
(* (db.get_session): it commits when the handler returns and rolls back    *)
(* when the handler raises.                                                *)
(***************************************************************************)
EXTENDS Integers, Sequences, FiniteSets, TLC

\* ------------------------------------------------------------------------
\* Bounds of the model
\* ------------------------------------------------------------------------
\* transactions ever created (ids are uuid4 values: fresh, never reused)
MaxTxns == 2
\* transaction lines ever created
MaxLines == 4
\* readings of the clock (func.now() / datetime.now)
MaxClock == 2
\* requests that commit a change
MaxCommits == 2
\* how many transactions a listed ledger holds at most
MaxListed == 3
\* category, payee and tag requests that commit a change
MaxCategoryCommits == 3
\* budget and account requests that commit a change
MaxBudgetCommits == 4

NULL == "NULL"
OK == "ok"

\* ------------------------------------------------------------------------
\* Error details raised by the handlers
\* ------------------------------------------------------------------------
AmountZero == "Amount must be non-zero."
AccountNotFound == "Account not found."
CategoryNotFound == "Category not found."
PayeeNotFound == "Payee not found."
TagNotFound == "Tag not found."
InvalidStatus == "Invalid status."
TransactionNotFound == "Transaction not found."
NoFieldsToUpdate == "No fields to update."
PostedAtRequired == "Posted at is required."
StatusRequired == "Status is required."
ImportIdImmutable == "Import id cannot be updated."
LinesCannotBeNull == "Lines cannot be null."
NoLineUpdates == "No line updates provided."
DuplicateLineId == "Duplicate line_id."
LineNotFound == "Line not found."
InvalidTransactionLines == "Invalid transaction lines."
TransferCannotBeSplit == "Transfer transactions cannot be split."
TransferAccountsMustDiffer == "Transfer accounts must be distinct."
PayeeNotAllowedForTransfers == "Payee not allowed for transfers."
\* an IntegrityError of the store surfaces as an unhandled exception
IntegrityError == "Internal Server Error"

\* ------------------------------------------------------------------------
\* The fixture: two budgets with their accounts, categories, payees, tags
\* ------------------------------------------------------------------------
Budgets == {"b1", "b2"}
AccountBudget == [a1 |-> "b1", a2 |-> "b1", a3 |-> "b2"]
CategoryBudget == [c1 |-> "b1", c2 |-> "b2"]
PayeeBudget == [p1 |-> "b1", p2 |-> "b2"]
TagBudget == [t1 |-> "b1", t2 |-> "b1", t3 |-> "b2"]
\* an account id that no row carries
UnknownAccount == "a9"
\* the budgets of the ledger: their base currency, and the user who owns them
BudgetRows ==
    [b \in Budgets |-> [name |-> "n", base_currency_code |-> "USD", members |-> {"u1"}]]

VARIABLES
    budgets,                \* BudgetsTable: id -> [name, base_currency_code, members]
    accounts,               \* AccountsTable: id -> [budget_id]
    categories,             \* CategoriesTable: id -> [budget_id, parent_id]
    payees,                 \* PayeesTable: id -> [budget_id]
    tags,                   \* TagsTable: id -> [budget_id]
    transactions,           \* TransactionsTable: id -> header row
    transaction_lines,      \* TransactionLinesTable: id -> line row
    transaction_line_tags,  \* TransactionLineTagsTable: set of <<line_id, tag_id>>
    ids,                    \* how many transaction / line ids were handed out
    clock,                  \* the current reading of the clock
    commits,                \* how many requests committed a change
    response,               \* the response on its way to the client, if any
    sessions                \* the requests in progress at the same time, if any

vars == <<budgets, accounts, categories, payees, tags, transactions, transaction_lines,
          transaction_line_tags, ids, clock, commits, response, sessions>>

\* the committed database as one value
DB ==
    [budgets |-> budgets, accounts |-> accounts, categories |-> categories, payees |-> payees,
     tags |-> tags, transactions |-> transactions,
     transaction_lines |-> transaction_lines,
     transaction_line_tags |-> transaction_line_tags, ids |-> ids]

\* ------------------------------------------------------------------------
\* Sequence helpers
\* ------------------------------------------------------------------------
Range(s) == {s[i] : i \in DOMAIN s}

RECURSIVE SumSeq(_)
SumSeq(s) == IF s = <<>> THEN 0 ELSE Head(s) + SumSeq(Tail(s))

RECURSIVE SetToSeq(_)
\* an enumeration of a set of integers in ascending order (sorted(..., key=id))
SetToSeq(S) ==
    IF S = {} THEN <<>>
    ELSE LET m == CHOOSE x \in S : \A y \in S : x <= y
         IN <<m>> \o SetToSeq(S \ {m})

\* ------------------------------------------------------------------------
\* services/transactions.py: pure helpers
\* ------------------------------------------------------------------------
\* A datetime is [t |-> wall clock reading, naive |-> no tzinfo, off |-> utc
\* offset]; an absent datetime is <<>>, a present one <<dt>>.
_normalize_posted_at(value, now) ==
    IF value = <<>> THEN now
    ELSE IF value[1].naive THEN value[1].t
    ELSE value[1].t - value[1].off

\* A raw status is a sequence of characters.
LowerChar(c) ==
    CASE c = "P" -> "p" [] c = "O" -> "o" [] c = "S" -> "s" [] c = "T" -> "t"
      [] c = "E" -> "e" [] c = "D" -> "d" [] c = "V" -> "v" [] c = "I" -> "i"
      [] OTHER -> c

Lower(s) == [i \in DOMAIN s |-> LowerChar(s[i])]

RECURSIVE LStrip(_)
LStrip(s) == IF s # <<>> /\ Head(s) = " " THEN LStrip(Tail(s)) ELSE s

RECURSIVE RStrip(_)
RStrip(s) ==
    IF s # <<>> /\ s[Len(s)] = " " THEN RStrip(SubSeq(s, 1, Len(s) - 1)) ELSE s

Strip(s) == RStrip(LStrip(s))

\* TransactionStatus: the enum's values, spelled as character sequences
TransactionStatus ==
    [pending |-> <<"p", "e", "n", "d", "i", "n", "g">>,
     posted |-> <<"p", "o", "s", "t", "e", "d">>,
     reconciled |-> <<"r", "e", "c", "o", "n", "c", "i", "l", "e", "d">>,
     void |-> <<"v", "o", "i", "d">>]

_ALLOWED_STATUSES == {TransactionStatus[k] : k \in DOMAIN TransactionStatus}

\* mutant: the raw status is lower-cased but not stripped
_normalize_status_unstripped(raw_status) ==
    IF raw_status = <<>> THEN "posted"
    ELSE LET normalized == Lower(raw_status[1])
         IN IF normalized \notin _ALLOWED_STATUSES THEN InvalidStatus
            ELSE CHOOSE k \in DOMAIN TransactionStatus :
                     TransactionStatus[k] = normalized

\* returns the enum member's name, or InvalidStatus when the handler raises;
\* an absent status is <<>>, a present one <<raw>>
_normalize_status(raw_status) ==
    IF raw_status = <<>> THEN "posted"
    ELSE LET normalized == Lower(Strip(raw_status[1]))
         IN IF normalized \notin _ALLOWED_STATUSES THEN InvalidStatus
            ELSE CHOOSE k \in DOMAIN TransactionStatus :
                     TransactionStatus[k] = normalized

RECURSIVE DedupeFrom(_, _)
DedupeFrom(tag_ids, seen) ==
    IF tag_ids = <<>> THEN <<>>
    ELSE IF Head(tag_ids) \in seen THEN DedupeFrom(Tail(tag_ids), seen)
    ELSE <<Head(tag_ids)>> \o DedupeFrom(Tail(tag_ids), seen \cup {Head(tag_ids)})

_dedupe_tag_ids(tag_ids) == DedupeFrom(tag_ids, {})

\* mutant: a transfer is looked for among lines that carry a category
_is_valid_transfer_categorised(lines) ==
    /\ Len(lines) = 2
    /\ Cardinality({lines[i].account_id : i \in DOMAIN lines}) = 2
    /\ \A i \in DOMAIN lines : lines[i].category_id # NULL
    /\ SumSeq([i \in DOMAIN lines |-> lines[i].amount_minor]) = 0

\* mutant: a transfer whose amounts need not sum to 0
_is_valid_transfer_unbalanced(lines) ==
    /\ Len(lines) = 2
    /\ Cardinality({lines[i].account_id : i \in DOMAIN lines}) = 2
    /\ \A i \in DOMAIN lines : lines[i].category_id = NULL

\* lines: a sequence of LineSnapshot records
_is_valid_transfer(lines) ==
    /\ Len(lines) = 2
    /\ Cardinality({lines[i].account_id : i \in DOMAIN lines}) = 2
    /\ \A i \in DOMAIN lines : lines[i].category_id = NULL
    /\ SumSeq([i \in DOMAIN lines |-> lines[i].amount_minor]) = 0

\* mutant: a non-transfer whose lines may sit on different accounts
_is_valid_non_transfer_any_account(lines) == lines # <<>>

_is_valid_non_transfer(lines) ==
    /\ lines # <<>>
    /\ Cardinality({lines[i].account_id : i \in DOMAIN lines}) = 1

\* ------------------------------------------------------------------------
\* data_access/transactions.py: the Ledger Repository, on a database value
\* ------------------------------------------------------------------------
\* mutant: the table has no unique constraint
uq_transactions_budget_import_id_absent(db, budget_id, import_id) == TRUE

\* uq_transactions_budget_import_id: a second row with the same non-null
\* (budget_id, import_id) makes the flush raise IntegrityError
uq_transactions_budget_import_id(db, budget_id, import_id) ==
    \/ import_id = NULL
    \/ \A t \in DOMAIN db.transactions :
           ~(/\ db.transactions[t].budget_id = budget_id
             /\ db.transactions[t].import_id = import_id)

\* TransactionsDataAccess.create_transaction: inserts the header row `id`
store_create_transaction(db, id, budget_id, posted_at, status, notes, import_id, now) ==
    [db EXCEPT
       !.transactions =
           [t \in DOMAIN db.transactions \cup {id} |->
              IF t = id
              THEN [budget_id |-> budget_id, posted_at |-> posted_at,
                    status |-> status, notes |-> notes, import_id |-> import_id,
                    created_at |-> now]
              ELSE db.transactions[t]],
       !.ids = [db.ids EXCEPT !.txn = db.ids.txn + 1]]

\* mutant: only the first draft becomes a row
create_transaction_lines_first_row(db, transaction_id, lines, new_ids) ==
    [db EXCEPT
       !.transaction_lines =
           [l \in DOMAIN db.transaction_lines \cup {new_ids[1]} |->
              IF l = new_ids[1]
              THEN [transaction_id |-> transaction_id,
                    account_id |-> lines[1].account_id,
                    category_id |-> lines[1].category_id,
                    payee_id |-> lines[1].payee_id,
                    amount_minor |-> lines[1].amount_minor,
                    memo |-> lines[1].memo]
              ELSE db.transaction_lines[l]],
       !.transaction_line_tags =
           db.transaction_line_tags \cup {<<new_ids[1], tg>> : tg \in Range(lines[1].tag_ids)},
       !.ids = [db.ids EXCEPT !.line = db.ids.line + Len(lines)]]

\* mutant: the tag links of the first row only
create_transaction_lines_first_tags(db, transaction_id, lines, new_ids) ==
    [db EXCEPT
       !.transaction_lines =
           [l \in DOMAIN db.transaction_lines \cup Range(new_ids) |->
              IF l \in Range(new_ids)
              THEN LET i == CHOOSE j \in DOMAIN new_ids : new_ids[j] = l
                   IN [transaction_id |-> transaction_id,
                       account_id |-> lines[i].account_id,
                       category_id |-> lines[i].category_id,
                       payee_id |-> lines[i].payee_id,
                       amount_minor |-> lines[i].amount_minor,
                       memo |-> lines[i].memo]
              ELSE db.transaction_lines[l]],
       !.transaction_line_tags =
           db.transaction_line_tags \cup {<<new_ids[1], tg>> : tg \in Range(lines[1].tag_ids)},
       !.ids = [db.ids EXCEPT !.line = db.ids.line + Len(lines)]]

\* TransactionsDataAccess.create_transaction_lines: row i of `lines` gets the
\* id new_ids[i]; one tag link per tag id of the draft
create_transaction_lines(db, transaction_id, lines, new_ids) ==
    [db EXCEPT
       !.transaction_lines =
           [l \in DOMAIN db.transaction_lines \cup Range(new_ids) |->
              IF l \in Range(new_ids)
              THEN LET i == CHOOSE j \in DOMAIN new_ids : new_ids[j] = l
                   IN [transaction_id |-> transaction_id,
                       account_id |-> lines[i].account_id,
                       category_id |-> lines[i].category_id,
                       payee_id |-> lines[i].payee_id,
                       amount_minor |-> lines[i].amount_minor,
                       memo |-> lines[i].memo]
              ELSE db.transaction_lines[l]],
       !.transaction_line_tags =
           db.transaction_line_tags \cup
           UNION {{<<new_ids[i], tg>> : tg \in Range(lines[i].tag_ids)} :
                     i \in DOMAIN lines},
       !.ids = [db.ids EXCEPT !.line = db.ids.line + Len(lines)]]

category_exists_in_budget(db, category_id, budget_id) ==
    /\ category_id \in DOMAIN db.categories
    /\ db.categories[category_id].budget_id = budget_id

payee_exists_in_budget(db, payee_id, budget_id) ==
    /\ payee_id \in DOMAIN db.payees
    /\ db.payees[payee_id].budget_id = budget_id

list_tag_ids_in_budget(db, tag_ids, budget_id) ==
    {tg \in Range(tag_ids) :
        tg \in DOMAIN db.tags /\ db.tags[tg].budget_id = budget_id}

\* the ids of the lines of a transaction
LineIdsOf(db, transaction_id) ==
    {l \in DOMAIN db.transaction_lines :
        db.transaction_lines[l].transaction_id = transaction_id}

\* _sorted_tag_ids: the tag ids linked to a line, ascending
_sorted_tag_ids(db, line_id) ==
    LET linked == {tg \in DOMAIN TagBudget : <<line_id, tg>> \in db.transaction_line_tags}
        TagRank == [t1 |-> 1, t2 |-> 2, t3 |-> 3]
    IN [i \in 1..Cardinality(linked) |->
          CHOOSE tg \in linked :
              Cardinality({u \in linked : TagRank[u] < TagRank[tg]}) = i - 1]

\* mutant: the lines come as the store returns them, here by descending id
_to_transaction_lines_unsorted(db, transaction_id) ==
    LET sorted_ids == SetToSeq(LineIdsOf(db, transaction_id))
        n == Len(sorted_ids)
    IN [i \in DOMAIN sorted_ids |->
          LET row == db.transaction_lines[sorted_ids[n + 1 - i]]
          IN [id |-> sorted_ids[n + 1 - i],
              account_id |-> row.account_id,
              category_id |-> row.category_id,
              payee_id |-> row.payee_id,
              amount_minor |-> row.amount_minor,
              memo |-> row.memo,
              tag_ids |-> _sorted_tag_ids(db, sorted_ids[n + 1 - i])]]

\* _to_transaction_lines: the lines of a transaction sorted by id, each with
\* its sorted tag ids
_to_transaction_lines(db, transaction_id) ==
    LET sorted_ids == SetToSeq(LineIdsOf(db, transaction_id))
    IN [i \in DOMAIN sorted_ids |->
          LET row == db.transaction_lines[sorted_ids[i]]
          IN [id |-> sorted_ids[i],
              account_id |-> row.account_id,
              category_id |-> row.category_id,
              payee_id |-> row.payee_id,
              amount_minor |-> row.amount_minor,
              memo |-> row.memo,
              tag_ids |-> _sorted_tag_ids(db, sorted_ids[i])]]

\* _to_transaction: the header row as a Transaction, with its lines
_to_transaction(db, transaction_id) ==
    LET row == db.transactions[transaction_id]
    IN [id |-> transaction_id,
        budget_id |-> row.budget_id,
        posted_at |-> row.posted_at,
        status |-> row.status,
        notes |-> row.notes,
        import_id |-> row.import_id,
        created_at |-> row.created_at,
        lines |-> _to_transaction_lines(db, transaction_id)]

\* mutant: ORDER BY posted_at DESC, id DESC
OrderedBefore_without_created_at(db, t, u) ==
    \/ db.transactions[t].posted_at > db.transactions[u].posted_at
    \/ /\ db.transactions[t].posted_at = db.transactions[u].posted_at
       /\ t > u

\* ORDER BY posted_at DESC, created_at DESC, id DESC: row t comes before row u
OrderedBefore(db, t, u) ==
    \/ db.transactions[t].posted_at > db.transactions[u].posted_at
    \/ /\ db.transactions[t].posted_at = db.transactions[u].posted_at
       /\ db.transactions[t].created_at > db.transactions[u].created_at
    \/ /\ db.transactions[t].posted_at = db.transactions[u].posted_at
       /\ db.transactions[t].created_at = db.transactions[u].created_at
       /\ t > u

\* the selected rows in the order of the statement
RECURSIVE OrderBy(_, _)
OrderBy(db, selected) ==
    IF selected = {} THEN <<>>
    ELSE LET first == CHOOSE t \in selected :
                          \A u \in selected \ {t} : OrderedBefore(db, t, u)
         IN <<first>> \o OrderBy(db, selected \ {first})

\* TransactionsDataAccess.list_transactions (include_lines = True)
list_transactions(db, budget_id) ==
    LET selected == {t \in DOMAIN db.transactions : db.transactions[t].budget_id = budget_id}
        ordered == OrderBy(db, selected)
    IN [i \in DOMAIN ordered |-> _to_transaction(db, ordered[i])]

\* TransactionsService.get_transaction (include_lines = True)
get_transaction(db, budget_id, transaction_id) ==
    IF \/ transaction_id \notin DOMAIN db.transactions
       \/ db.transactions[transaction_id].budget_id # budget_id
    THEN [detail |-> TransactionNotFound, db |-> db, body |-> NULL]
    ELSE [detail |-> OK, db |-> db, body |-> _to_transaction(db, transaction_id)]

\* mutant: the tag links of the deleted lines stay
store_delete_transaction_keeping_links(db, transaction_id) ==
    LET gone == LineIdsOf(db, transaction_id)
    IN [db EXCEPT
          !.transactions =
              [t \in DOMAIN db.transactions \ {transaction_id} |-> db.transactions[t]],
          !.transaction_lines =
              [l \in DOMAIN db.transaction_lines \ gone |-> db.transaction_lines[l]]]

\* TransactionsDataAccess.delete_transaction: the row, its lines
\* (cascade="all, delete-orphan") and their tag links
store_delete_transaction(db, transaction_id) ==
    LET gone == LineIdsOf(db, transaction_id)
    IN [db EXCEPT
          !.transactions =
              [t \in DOMAIN db.transactions \ {transaction_id} |-> db.transactions[t]],
          !.transaction_lines =
              [l \in DOMAIN db.transaction_lines \ gone |-> db.transaction_lines[l]],
          !.transaction_line_tags =
              {lt \in db.transaction_line_tags : lt[1] \notin gone}]

\* ------------------------------------------------------------------------
\* services/transactions.py: the Line Validator
\* ------------------------------------------------------------------------
\* mutant: an account of any budget will do
_require_account_any_budget(db, budget_id, account_id) ==
    account_id \in DOMAIN db.accounts

_require_account(db, budget_id, account_id) ==
    /\ account_id \in DOMAIN db.accounts
    /\ db.accounts[account_id].budget_id = budget_id

_require_category(db, budget_id, category_id) ==
    category_exists_in_budget(db, category_id, budget_id)

_require_payee(db, budget_id, payee_id) ==
    payee_exists_in_budget(db, payee_id, budget_id)

\* mutant: only the first tag id is looked up
_require_tags_first_only(db, budget_id, tag_ids) ==
    LET deduped == _dedupe_tag_ids(tag_ids)
    IN \/ deduped = <<>>
       \/ list_tag_ids_in_budget(db, <<deduped[1]>>, budget_id) = {deduped[1]}

\* TRUE when the handler does not raise; the ids it returns are
\* _dedupe_tag_ids(tag_ids)
_require_tags(db, budget_id, tag_ids) ==
    LET deduped == _dedupe_tag_ids(tag_ids)
    IN \/ deduped = <<>>
       \/ list_tag_ids_in_budget(db, deduped, budget_id) = Range(deduped)

\* mutant: the line validator without its check of the amount
ValidateLineDraft_any_amount(db, budget_id, line) ==
    IF ~_require_account(db, budget_id, line.account_id) THEN AccountNotFound
    ELSE IF line.category_id # NULL /\ ~_require_category(db, budget_id, line.category_id)
         THEN CategoryNotFound
    ELSE IF line.payee_id # NULL /\ ~_require_payee(db, budget_id, line.payee_id)
         THEN PayeeNotFound
    ELSE IF ~_require_tags(db, budget_id, line.tag_ids) THEN TagNotFound
    ELSE OK

\* the first check of a line draft that raises, or OK
ValidateLineDraft(db, budget_id, line) ==
    IF line.amount_minor = 0 THEN AmountZero
    ELSE IF ~_require_account(db, budget_id, line.account_id) THEN AccountNotFound
    ELSE IF line.category_id # NULL /\ ~_require_category(db, budget_id, line.category_id)
         THEN CategoryNotFound
    ELSE IF line.payee_id # NULL /\ ~_require_payee(db, budget_id, line.payee_id)
         THEN PayeeNotFound
    ELSE IF ~_require_tags(db, budget_id, line.tag_ids) THEN TagNotFound
    ELSE OK

\* ------------------------------------------------------------------------
\* db.get_session: commit when the handler returned, roll back when it raised.
\* A handler's outcome is [detail, db]: OK or the detail it raised, and the
\* session's view of the database at that point.
\* ------------------------------------------------------------------------
Raise(detail, db) == [detail |-> detail, db |-> db]

Return(db) == [detail |-> OK, db |-> db]

\* mutant: the session commits whatever the handler did
get_session_always_commits(db, outcome) == outcome.db

get_session(db, outcome) == IF outcome.detail = OK THEN outcome.db ELSE db

\* ------------------------------------------------------------------------
\* TransactionsService.create_transaction
\* ------------------------------------------------------------------------
create_transaction(db, budget_id, payload, now, new_ids) ==
    LET line == payload.line
        checked == ValidateLineDraft(db, budget_id, line)
        normalized_status == _normalize_status(payload.status)
        posted_at == _normalize_posted_at(payload.posted_at, now)
        id == db.ids.txn + 1
        with_header ==
            store_create_transaction(db, id, budget_id, posted_at,
                                     normalized_status, payload.notes,
                                     payload.import_id, now)
        draft == [line EXCEPT !.tag_ids = _dedupe_tag_ids(line.tag_ids)]
    IN IF checked # OK THEN Raise(checked, db)
       ELSE IF normalized_status = InvalidStatus THEN Raise(InvalidStatus, db)
       ELSE IF ~uq_transactions_budget_import_id(db, budget_id, payload.import_id)
            THEN Raise(IntegrityError, db)
       ELSE Return(create_transaction_lines(with_header, id, <<draft>>, new_ids))

\* ------------------------------------------------------------------------
\* TransactionsService.update_transaction
\*
\* A patch (TransactionUpdate, TransactionLineUpdate) carries `set`, the
\* fields the caller sent (model_dump(exclude_unset=True)), and `nulls`, the
\* ones among them sent as null; the value of a field outside set \ nulls is
\* never read.
\* ------------------------------------------------------------------------
IsSet(patch, field) == field \in patch.set

IsNull(patch, field) == field \in patch.nulls

\* the value of a nullable string field the caller sent
Sent(patch, field) == IF IsNull(patch, field) THEN NULL ELSE patch[field]

\* TransactionsDataAccess.update_transaction: setattr for every update
store_update_transaction(db, transaction_id, updates) ==
    [db EXCEPT !.transactions[transaction_id] =
        [f \in DOMAIN @ |-> IF f \in DOMAIN updates THEN updates[f] ELSE @[f]]]

\* TransactionsDataAccess.update_transaction_lines: setattr for every field of
\* every update whose line exists
RECURSIVE update_transaction_lines(_, _)
update_transaction_lines(db, line_updates) ==
    IF line_updates = <<>> THEN db
    ELSE LET update == Head(line_updates)
             written ==
                 IF update.line_id \notin DOMAIN db.transaction_lines THEN db
                 ELSE [db EXCEPT !.transaction_lines[update.line_id] =
                          [f \in DOMAIN @ |->
                              IF f \in DOMAIN update.updates THEN update.updates[f]
                              ELSE @[f]]]
         IN update_transaction_lines(written, Tail(line_updates))

\* mutant: the delete of the old links has no WHERE clause
replace_transaction_line_tags_dropping_others(db, tag_updates) ==
    [db EXCEPT !.transaction_line_tags =
          UNION {{<<tag_updates[i].line_id, tg>> : tg \in Range(tag_updates[i].tag_ids)} :
                    i \in DOMAIN tag_updates}]

\* TransactionsDataAccess.replace_transaction_line_tags; tag_updates is the
\* dict line_id -> tag ids, as a sequence of [line_id, tag_ids]
replace_transaction_line_tags(db, tag_updates) ==
    LET line_ids == {tag_updates[i].line_id : i \in DOMAIN tag_updates}
    IN [db EXCEPT !.transaction_line_tags =
          {lt \in @ : lt[1] \notin line_ids} \cup
          UNION {{<<tag_updates[i].line_id, tg>> : tg \in Range(tag_updates[i].tag_ids)} :
                    i \in DOMAIN tag_updates}]

\* the LineSnapshot of every line of a transaction, keyed by line id
LineSnapshots(db, transaction_id) ==
    LET existing_lines == _to_transaction_lines(db, transaction_id)
    IN [l \in LineIdsOf(db, transaction_id) |->
          LET i == CHOOSE j \in DOMAIN existing_lines : existing_lines[j].id = l
          IN existing_lines[i]]

\* list(line_snapshots.values())
SnapshotList(line_snapshots) ==
    LET order == SetToSeq(DOMAIN line_snapshots)
    IN [i \in DOMAIN order |-> line_snapshots[order[i]]]

\* mutant: a line_id named twice is patched twice
LineUpdateCheck_repeats_allowed(db, budget_id, acc, line_update) ==
    IF line_update.line_id \notin DOMAIN acc.line_snapshots THEN LineNotFound
    ELSE IF line_update.set = {} THEN OK
    ELSE IF /\ IsSet(line_update, "account_id")
            /\ \/ IsNull(line_update, "account_id")
               \/ ~_require_account(db, budget_id, line_update.account_id)
         THEN AccountNotFound
    ELSE IF /\ IsSet(line_update, "category_id")
            /\ ~IsNull(line_update, "category_id")
            /\ ~_require_category(db, budget_id, line_update.category_id)
         THEN CategoryNotFound
    ELSE IF /\ IsSet(line_update, "payee_id")
            /\ ~IsNull(line_update, "payee_id")
            /\ ~_require_payee(db, budget_id, line_update.payee_id)
         THEN PayeeNotFound
    ELSE IF /\ IsSet(line_update, "amount_minor")
            /\ \/ IsNull(line_update, "amount_minor")
               \/ line_update.amount_minor = 0
         THEN AmountZero
    ELSE OK

\* the first check of one line patch that raises, or OK
LineUpdateCheck(db, budget_id, acc, line_update) ==
    IF line_update.line_id \in acc.seen_line_ids THEN DuplicateLineId
    ELSE IF line_update.line_id \notin DOMAIN acc.line_snapshots THEN LineNotFound
    ELSE IF line_update.set = {} THEN OK
    ELSE IF /\ IsSet(line_update, "account_id")
            /\ \/ IsNull(line_update, "account_id")
               \/ ~_require_account(db, budget_id, line_update.account_id)
         THEN AccountNotFound
    ELSE IF /\ IsSet(line_update, "category_id")
            /\ ~IsNull(line_update, "category_id")
            /\ ~_require_category(db, budget_id, line_update.category_id)
         THEN CategoryNotFound
    ELSE IF /\ IsSet(line_update, "payee_id")
            /\ ~IsNull(line_update, "payee_id")
            /\ ~_require_payee(db, budget_id, line_update.payee_id)
         THEN PayeeNotFound
    ELSE IF /\ IsSet(line_update, "amount_minor")
            /\ \/ IsNull(line_update, "amount_minor")
               \/ line_update.amount_minor = 0
         THEN AmountZero
    ELSE OK

\* the body of the loop over the line patches for a patch that passed its checks
LineUpdateApply(acc, line_update) ==
    LET line_id == line_update.line_id
        db_fields == line_update.set \ {"tag_ids"}
        line_update_db ==
            [f \in db_fields |->
                IF f = "amount_minor" THEN line_update.amount_minor
                ELSE Sent(line_update, f)]
        tag_ids ==
            IF IsNull(line_update, "tag_ids") THEN <<>>
            ELSE _dedupe_tag_ids(line_update.tag_ids)
        has_tags == IsSet(line_update, "tag_ids")
        snapshot ==
            [f \in DOMAIN acc.line_snapshots[line_id] |->
                IF f \in db_fields THEN line_update_db[f]
                ELSE IF f = "tag_ids" /\ has_tags THEN tag_ids
                ELSE acc.line_snapshots[line_id][f]]
    IN IF line_update.set = {}
       THEN [acc EXCEPT !.seen_line_ids = @ \cup {line_id}]
       ELSE [acc EXCEPT
               !.seen_line_ids = @ \cup {line_id},
               !.line_snapshots[line_id] = snapshot,
               !.line_updates_to_apply =
                   IF db_fields = {} THEN @
                   ELSE Append(@, [line_id |-> line_id, updates |-> line_update_db]),
               !.tag_updates =
                   IF has_tags THEN Append(@, [line_id |-> line_id, tag_ids |-> tag_ids])
                   ELSE @,
               !.tag_ids_to_validate = IF has_tags THEN @ \o tag_ids ELSE @]

RECURSIVE ApplyLineUpdates(_, _, _, _)
\* the loop over line_updates_payload: stops at the first patch that raises
ApplyLineUpdates(db, budget_id, line_updates_payload, acc) ==
    IF line_updates_payload = <<>> THEN acc
    ELSE LET line_update == Head(line_updates_payload)
             checked == LineUpdateCheck(db, budget_id, acc, line_update)
         IN IF checked # OK THEN [acc EXCEPT !.detail = checked]
            ELSE ApplyLineUpdates(db, budget_id, Tail(line_updates_payload),
                                  LineUpdateApply(acc, line_update))

\* mutant: transaction_updates without the notes
TransactionUpdates_without_notes(payload, now) ==
    LET fields == payload.set \cap {"posted_at", "status"}
    IN [f \in fields |->
          CASE f = "posted_at" -> _normalize_posted_at(<<payload.posted_at>>, now)
            [] f = "status" -> _normalize_status(<<payload.status>>)]

\* transaction_updates: the header fields the handler will write
TransactionUpdates(payload, now) ==
    LET fields == payload.set \cap {"posted_at", "status", "notes"}
    IN [f \in fields |->
          CASE f = "posted_at" -> _normalize_posted_at(<<payload.posted_at>>, now)
            [] f = "status" -> _normalize_status(<<payload.status>>)
            [] f = "notes" -> Sent(payload, "notes")]

\* mutant: the header checks without the comparison of import_id
HeaderCheck_import_id_accepted(transaction, payload) ==
    IF payload.set = {} THEN NoFieldsToUpdate
    ELSE IF IsSet(payload, "posted_at") /\ IsNull(payload, "posted_at")
         THEN PostedAtRequired
    ELSE IF IsSet(payload, "status") /\ IsNull(payload, "status") THEN StatusRequired
    ELSE IF IsSet(payload, "status") /\ _normalize_status(<<payload.status>>) = InvalidStatus
         THEN InvalidStatus
    ELSE IF IsSet(payload, "import_id") /\ Cardinality(payload.set) = 1
         THEN ImportIdImmutable
    ELSE IF IsSet(payload, "lines") /\ IsNull(payload, "lines") THEN LinesCannotBeNull
    ELSE IF IsSet(payload, "lines") /\ payload.lines = <<>> THEN NoLineUpdates
    ELSE IF payload.set \cap {"posted_at", "status", "notes", "lines"} = {}
         THEN NoFieldsToUpdate
    ELSE OK

\* the first header check that raises, or OK (lines 286-347)
HeaderCheck(transaction, payload) ==
    IF payload.set = {} THEN NoFieldsToUpdate
    ELSE IF IsSet(payload, "posted_at") /\ IsNull(payload, "posted_at")
         THEN PostedAtRequired
    ELSE IF IsSet(payload, "status") /\ IsNull(payload, "status") THEN StatusRequired
    ELSE IF IsSet(payload, "status") /\ _normalize_status(<<payload.status>>) = InvalidStatus
         THEN InvalidStatus
    ELSE IF IsSet(payload, "import_id") /\ Sent(payload, "import_id") # transaction.import_id
         THEN ImportIdImmutable
    ELSE IF IsSet(payload, "import_id") /\ Cardinality(payload.set) = 1
         THEN ImportIdImmutable
    ELSE IF IsSet(payload, "lines") /\ IsNull(payload, "lines") THEN LinesCannotBeNull
    ELSE IF IsSet(payload, "lines") /\ payload.lines = <<>> THEN NoLineUpdates
    ELSE IF payload.set \cap {"posted_at", "status", "notes", "lines"} = {}
         THEN NoFieldsToUpdate
    ELSE OK

update_transaction(db, budget_id, transaction_id, payload, now) ==
    IF \/ transaction_id \notin DOMAIN db.transactions
       \/ db.transactions[transaction_id].budget_id # budget_id
    THEN Raise(TransactionNotFound, db)
    ELSE
    LET transaction == db.transactions[transaction_id]
        header == HeaderCheck(transaction, payload)
        transaction_updates == TransactionUpdates(payload, now)
        line_updates_payload == IF IsSet(payload, "lines") THEN payload.lines ELSE <<>>
        acc == ApplyLineUpdates(db, budget_id, line_updates_payload,
                   [detail |-> OK,
                    seen_line_ids |-> {},
                    line_snapshots |-> LineSnapshots(db, transaction_id),
                    line_updates_to_apply |-> <<>>,
                    tag_updates |-> <<>>,
                    tag_ids_to_validate |-> <<>>])
        updated_lines == SnapshotList(acc.line_snapshots)
        with_header ==
            IF DOMAIN transaction_updates # {}
            THEN store_update_transaction(db, transaction_id, transaction_updates)
            ELSE db
        with_lines == update_transaction_lines(with_header, acc.line_updates_to_apply)
        with_tags == replace_transaction_line_tags(with_lines, acc.tag_updates)
    IN IF header # OK THEN Raise(header, db)
       ELSE IF acc.detail # OK THEN Raise(acc.detail, db)
       ELSE IF /\ DOMAIN transaction_updates = {}
               /\ acc.line_updates_to_apply = <<>>
               /\ acc.tag_updates = <<>>
            THEN Raise(NoFieldsToUpdate, db)
       ELSE IF ~_require_tags(db, budget_id, acc.tag_ids_to_validate)
            THEN Raise(TagNotFound, db)
       ELSE IF ~_is_valid_transfer(updated_lines) /\ ~_is_valid_non_transfer(updated_lines)
            THEN Raise(InvalidTransactionLines, db)
       ELSE Return(with_tags)

\* ------------------------------------------------------------------------
\* TransactionsService.delete_transaction
\* ------------------------------------------------------------------------
\* mutant: the budget of the transaction is not compared
delete_transaction_of_any_budget(db, budget_id, transaction_id) ==
    IF transaction_id \notin DOMAIN db.transactions
    THEN Raise(TransactionNotFound, db)
    ELSE Return(store_delete_transaction(db, transaction_id))

delete_transaction(db, budget_id, transaction_id) ==
    IF \/ transaction_id \notin DOMAIN db.transactions
       \/ db.transactions[transaction_id].budget_id # budget_id
    THEN Raise(TransactionNotFound, db)
    ELSE Return(store_delete_transaction(db, transaction_id))

\* ------------------------------------------------------------------------
\* TransactionsDataAccess.replace_transaction_lines: deletes every line of the
\* transaction (their tag links go with them, ondelete="CASCADE"), then
\* creates the given lines
\* ------------------------------------------------------------------------
\* mutant: the new lines are added to the old ones
replace_transaction_lines_keeping_old(db, transaction_id, lines, new_ids) ==
    IF lines = <<>> THEN db
    ELSE create_transaction_lines(db, transaction_id, lines, new_ids)

replace_transaction_lines(db, transaction_id, lines, new_ids) ==
    LET gone == LineIdsOf(db, transaction_id)
        deleted ==
            [db EXCEPT
               !.transaction_lines =
                   [l \in DOMAIN db.transaction_lines \ gone |-> db.transaction_lines[l]],
               !.transaction_line_tags =
                   {lt \in db.transaction_line_tags : lt[1] \notin gone}]
    IN IF lines = <<>> THEN deleted
       ELSE create_transaction_lines(deleted, transaction_id, lines, new_ids)

\* the first draft of a sequence that fails its validation, or OK
RECURSIVE ValidateLineDrafts(_, _, _)
ValidateLineDrafts(db, budget_id, lines) ==
    IF lines = <<>> THEN OK
    ELSE LET checked == ValidateLineDraft(db, budget_id, Head(lines))
         IN IF checked # OK THEN checked
            ELSE ValidateLineDrafts(db, budget_id, Tail(lines))

\* ------------------------------------------------------------------------
\* TransactionsService.split_transaction (called by routers/transactions.py;
\* its body follows the specification, section 4.2)
\* ------------------------------------------------------------------------
split_transaction(db, budget_id, transaction_id, payload, new_ids) ==
    IF \/ transaction_id \notin DOMAIN db.transactions
       \/ db.transactions[transaction_id].budget_id # budget_id
    THEN Raise(TransactionNotFound, db)
    ELSE
    LET existing_lines == _to_transaction_lines(db, transaction_id)
        checked == ValidateLineDrafts(db, budget_id, payload.lines)
        drafts ==
            [i \in DOMAIN payload.lines |->
                [payload.lines[i] EXCEPT !.tag_ids = _dedupe_tag_ids(@)]]
    IN IF _is_valid_transfer(existing_lines) THEN Raise(TransferCannotBeSplit, db)
       ELSE IF checked # OK THEN Raise(checked, db)
       ELSE IF ~_is_valid_non_transfer(drafts) THEN Raise(InvalidTransactionLines, db)
       ELSE Return(replace_transaction_lines(db, transaction_id, drafts, new_ids))

\* ------------------------------------------------------------------------
\* TransactionsService.create_transfer (called by routers/transactions.py;
\* its body follows the specification, section 4.2, and
\* tests/test_transactions.py: a transfer of -750 debits from_account by 750)
\* ------------------------------------------------------------------------
\* mutant: a payee is accepted and set on both lines
create_transfer_with_payee(db, budget_id, payload, now, new_ids) ==
    LET amount == IF payload.amount_minor < 0 THEN 0 - payload.amount_minor
                  ELSE payload.amount_minor
        TransferLine(account_id, amount_minor) ==
            [account_id |-> account_id, category_id |-> NULL,
             payee_id |-> payload.payee_id, amount_minor |-> amount_minor,
             memo |-> payload.memo, tag_ids |-> _dedupe_tag_ids(payload.tag_ids)]
        id == db.ids.txn + 1
        with_header ==
            store_create_transaction(db, id, budget_id, now, "posted",
                                     payload.notes, NULL, now)
    IN IF payload.from_account_id = payload.to_account_id
       THEN Raise(TransferAccountsMustDiffer, db)
       ELSE IF payload.amount_minor = 0 THEN Raise(AmountZero, db)
       ELSE IF \/ ~_require_account(db, budget_id, payload.from_account_id)
               \/ ~_require_account(db, budget_id, payload.to_account_id)
            THEN Raise(AccountNotFound, db)
       ELSE IF ~_require_tags(db, budget_id, payload.tag_ids) THEN Raise(TagNotFound, db)
       ELSE Return(create_transaction_lines(
                with_header, id,
                <<TransferLine(payload.from_account_id, 0 - amount),
                  TransferLine(payload.to_account_id, amount)>>,
                new_ids))

Abs(n) == IF n < 0 THEN 0 - n ELSE n

create_transfer(db, budget_id, payload, now, new_ids) ==
    LET amount == Abs(payload.amount_minor)
        tag_ids == _dedupe_tag_ids(payload.tag_ids)
        TransferLine(account_id, amount_minor) ==
            [account_id |-> account_id, category_id |-> NULL, payee_id |-> NULL,
             amount_minor |-> amount_minor, memo |-> payload.memo,
             tag_ids |-> tag_ids]
        id == db.ids.txn + 1
        with_header ==
            store_create_transaction(db, id, budget_id, now, "posted",
                                     payload.notes, NULL, now)
    IN IF payload.from_account_id = payload.to_account_id
       THEN Raise(TransferAccountsMustDiffer, db)
       ELSE IF payload.amount_minor = 0 THEN Raise(AmountZero, db)
       ELSE IF payload.payee_id # NULL THEN Raise(PayeeNotAllowedForTransfers, db)
       ELSE IF \/ ~_require_account(db, budget_id, payload.from_account_id)
               \/ ~_require_account(db, budget_id, payload.to_account_id)
            THEN Raise(AccountNotFound, db)
       ELSE IF ~_require_tags(db, budget_id, payload.tag_ids) THEN Raise(TagNotFound, db)
       ELSE Return(create_transaction_lines(
                with_header, id,
                <<TransferLine(payload.from_account_id, 0 - amount),
                  TransferLine(payload.to_account_id, amount)>>,
                new_ids))

\* ------------------------------------------------------------------------
\* TransactionsService.bulk_import_transactions, POST
\* /budgets/{budget_id}/transactions/import (its body follows the
\* specification, section 4.3, and tests/test_transactions.py)
\* ------------------------------------------------------------------------
DuplicateImportId == "Duplicate import_id."

\* the indexes (from 1) of the drafts whose import_id another draft repeats
DuplicateIndexes(drafts) ==
    {i \in DOMAIN drafts :
        \E j \in DOMAIN drafts : j # i /\ drafts[j].import_id = drafts[i].import_id}

\* the error list of a rejected batch: one entry per index, counted from 0
DuplicateErrors(drafts) ==
    LET indexes == SetToSeq(DuplicateIndexes(drafts))
    IN [k \in DOMAIN indexes |-> [index |-> indexes[k] - 1, detail |-> DuplicateImportId]]

\* mutant: no import_id is ever found
import_id_exists_never(db, budget_id, import_id) == FALSE

\* a transaction of the budget already carries the import_id
import_id_exists(db, budget_id, import_id) ==
    \E t \in DOMAIN db.transactions :
        /\ db.transactions[t].budget_id = budget_id
        /\ db.transactions[t].import_id = import_id

\* the status of a response: every rejection of the create path is a 400, an
\* exception nothing handles is a 500
StatusOfDetail(detail) == IF detail = IntegrityError THEN 500 ELSE 400

\* the outcome of a bulk import: a handler's outcome with the response body
BulkOutcome(detail, db, errors, created_count, existing_count, status_code) ==
    [detail |-> detail, db |-> db, errors |-> errors,
     created_count |-> created_count, existing_count |-> existing_count,
     status_code |-> status_code]

\* mutant: 201 whenever a draft was created
BulkStatus_created(created_count, existing_count) ==
    IF created_count > 0 THEN 201 ELSE 200

\* 201 when every draft was created, 200 when a draft was skipped
BulkStatus(created_count, existing_count) ==
    IF existing_count = 0 THEN 201 ELSE 200

\* mutant: a draft whose import_id exists overwrites the amounts of the
\* stored transaction
RECURSIVE ImportDrafts_upserting(_, _, _, _, _, _)
ImportDrafts_upserting(db, budget_id, drafts, now, created_count, existing_count) ==
    IF drafts = <<>>
    THEN BulkOutcome(OK, db, <<>>, created_count, existing_count,
                     BulkStatus(created_count, existing_count))
    ELSE IF import_id_exists(db, budget_id, Head(drafts).import_id)
    THEN LET existing == {t \in DOMAIN db.transactions :
                             /\ db.transactions[t].budget_id = budget_id
                             /\ db.transactions[t].import_id = Head(drafts).import_id}
             written ==
                 [db EXCEPT !.transaction_lines =
                     [l \in DOMAIN @ |->
                         IF @[l].transaction_id \in existing
                         THEN [@[l] EXCEPT !.amount_minor = Head(drafts).line.amount_minor]
                         ELSE @[l]]]
         IN ImportDrafts_upserting(written, budget_id, Tail(drafts), now, created_count,
                                   existing_count + 1)
    ELSE LET created ==
                 create_transaction(db, budget_id, Head(drafts), now, <<db.ids.line + 1>>)
         IN IF created.detail # OK
            THEN BulkOutcome(created.detail, created.db, <<>>, 0, 0,
                             StatusOfDetail(created.detail))
            ELSE ImportDrafts_upserting(created.db, budget_id, Tail(drafts), now,
                                        created_count + 1, existing_count)

\* the drafts in order: skip the ones whose import_id exists, create the others
RECURSIVE ImportDrafts(_, _, _, _, _, _)
ImportDrafts(db, budget_id, drafts, now, created_count, existing_count) ==
    IF drafts = <<>>
    THEN BulkOutcome(OK, db, <<>>, created_count, existing_count,
                     BulkStatus(created_count, existing_count))
    ELSE IF import_id_exists(db, budget_id, Head(drafts).import_id)
    THEN ImportDrafts(db, budget_id, Tail(drafts), now, created_count, existing_count + 1)
    ELSE LET created ==
                 create_transaction(db, budget_id, Head(drafts), now, <<db.ids.line + 1>>)
         IN IF created.detail # OK
            THEN BulkOutcome(created.detail, created.db, <<>>, 0, 0,
                             StatusOfDetail(created.detail))
            ELSE ImportDrafts(created.db, budget_id, Tail(drafts), now,
                              created_count + 1, existing_count)

\* mutant: only the later occurrences of an import_id are reported
bulk_import_transactions_later_only(db, budget_id, payload, now) ==
    LET drafts == payload.transactions
        later == {i \in DOMAIN drafts :
                     \E j \in 1..(i - 1) : drafts[j].import_id = drafts[i].import_id}
        indexes == SetToSeq(later)
    IN IF later # {}
       THEN BulkOutcome(DuplicateImportId, db,
                        [k \in DOMAIN indexes |->
                            [index |-> indexes[k] - 1, detail |-> DuplicateImportId]],
                        0, 0, 400)
       ELSE ImportDrafts(db, budget_id, drafts, now, 0, 0)

bulk_import_transactions(db, budget_id, payload, now) ==
    LET drafts == payload.transactions
    IN IF DuplicateIndexes(drafts) # {}
       THEN BulkOutcome(DuplicateImportId, db, DuplicateErrors(drafts), 0, 0, 400)
       ELSE ImportDrafts(db, budget_id, drafts, now, 0, 0)

\* ------------------------------------------------------------------------
\* CategoriesService.delete_category, PayeesService.delete_payee,
\* TagsService.delete_tag, with the referential actions of tables.py
\* ------------------------------------------------------------------------
Without(f, k) == [x \in DOMAIN f \ {k} |-> f[x]]

\* mutant: the children of the deleted category keep their parent_id
delete_category_keeping_children(db, budget_id, category_id) ==
    IF ~category_exists_in_budget(db, category_id, budget_id)
    THEN Raise(CategoryNotFound, db)
    ELSE Return(
        [db EXCEPT
           !.categories = Without(db.categories, category_id),
           !.transaction_lines =
               [l \in DOMAIN db.transaction_lines |->
                   IF db.transaction_lines[l].category_id = category_id
                   THEN [db.transaction_lines[l] EXCEPT !.category_id = NULL]
                   ELSE db.transaction_lines[l]]])

delete_category(db, budget_id, category_id) ==
    IF ~category_exists_in_budget(db, category_id, budget_id)
    THEN Raise(CategoryNotFound, db)
    ELSE Return(
        [db EXCEPT
           !.categories =
               [c \in DOMAIN db.categories \ {category_id} |->
                   IF db.categories[c].parent_id = category_id
                   THEN [db.categories[c] EXCEPT !.parent_id = NULL]
                   ELSE db.categories[c]],
           !.transaction_lines =
               [l \in DOMAIN db.transaction_lines |->
                   IF db.transaction_lines[l].category_id = category_id
                   THEN [db.transaction_lines[l] EXCEPT !.category_id = NULL]
                   ELSE db.transaction_lines[l]]])

delete_payee(db, budget_id, payee_id) ==
    IF ~payee_exists_in_budget(db, payee_id, budget_id)
    THEN Raise(PayeeNotFound, db)
    ELSE Return(
        [db EXCEPT
           !.payees = Without(db.payees, payee_id),
           !.transaction_lines =
               [l \in DOMAIN db.transaction_lines |->
                   IF db.transaction_lines[l].payee_id = payee_id
                   THEN [db.transaction_lines[l] EXCEPT !.payee_id = NULL]
                   ELSE db.transaction_lines[l]]])

delete_tag(db, budget_id, tag_id) ==
    IF ~(tag_id \in DOMAIN db.tags /\ db.tags[tag_id].budget_id = budget_id)
    THEN Raise(TagNotFound, db)
    ELSE Return(
        [db EXCEPT
           !.tags = Without(db.tags, tag_id),
           !.transaction_line_tags = {lt \in @ : lt[2] # tag_id}])

\* ------------------------------------------------------------------------
\* The requests the model sends
\* ------------------------------------------------------------------------
AwareDatetime == [t |-> 6, naive |-> FALSE, off |-> 1]
NaiveDatetime == [t |-> 7, naive |-> TRUE, off |-> 0]
RawVoid == <<" ", "V", "o", "I", "D", " ">>
RawBogus == <<"b", "o", "g", "u", "s">>
RawPosted == <<"P", "O", "S", "T", "E", "D">>
RawSpaced == <<"v", "o", " ", "i", "d">>

Amounts == {-1, 0, 1}

LineDraft(account_id, category_id, payee_id, amount_minor, memo, tag_ids) ==
    [account_id |-> account_id, category_id |-> category_id, payee_id |-> payee_id,
     amount_minor |-> amount_minor, memo |-> memo, tag_ids |-> tag_ids]

PlainLine(account_id, amount_minor) ==
    LineDraft(account_id, NULL, NULL, amount_minor, NULL, <<>>)

\* line drafts (TransactionLineCreate): every account with every amount, and a
\* line on a1 with one more reference or with all of them
LineDrafts ==
    {PlainLine(a, m) : a \in DOMAIN AccountBudget \cup {UnknownAccount}, m \in Amounts}
    \cup {LineDraft("a1", c, NULL, -1, NULL, <<>>) : c \in DOMAIN CategoryBudget}
    \cup {LineDraft("a1", NULL, p, -1, NULL, <<>>) : p \in DOMAIN PayeeBudget}
    \cup {LineDraft("a1", NULL, NULL, -1, NULL, tg) :
             tg \in {<<"t2", "t1", "t2">>, <<"t1", "t3">>}}
    \cup {LineDraft("a1", "c1", "p1", 1, "m", <<"t1">>)}

TransactionCreate(posted_at, status, notes, import_id, line) ==
    [posted_at |-> posted_at, status |-> status, notes |-> notes,
     import_id |-> import_id, line |-> line]

\* TransactionCreate payloads: every line draft under the default header, and
\* a plain line of either budget under the other headers
CreatePayloads ==
    {TransactionCreate(<<>>, <<>>, NULL, NULL, l) : l \in LineDrafts}
    \cup UNION {{TransactionCreate(<<AwareDatetime>>, <<RawVoid>>, "n", NULL, l),
                 TransactionCreate(<<>>, <<RawBogus>>, NULL, NULL, l),
                 TransactionCreate(<<>>, <<RawPosted>>, NULL, NULL, l),
                 TransactionCreate(<<>>, <<RawSpaced>>, NULL, NULL, l),
                 TransactionCreate(<<>>, <<>>, NULL, "i1", l)} :
                   l \in {PlainLine("a1", -1), PlainLine("a3", -1)}}

CreateRequests == Budgets \X CreatePayloads

\* TransactionSplitCreate payloads: no, one or two line drafts
SplitLines ==
    {PlainLine("a1", -1), PlainLine("a2", 1), PlainLine("a1", 0),
     LineDraft("a1", "c1", "p1", 1, "m", <<"t1", "t1">>),
     LineDraft("a1", "c2", NULL, 1, NULL, <<>>)}

SplitPayloads ==
    {[lines |-> <<>>]}
    \cup {[lines |-> <<l>>] : l \in SplitLines}
    \cup {[lines |-> <<l, k>>] :
             l \in SplitLines, k \in {PlainLine("a1", -1), PlainLine("a2", 1)}}

TxnIds == 1..MaxTxns

SplitRequests ==
    ({"b1"} \X TxnIds \X SplitPayloads)
    \cup ({"b2"} \X TxnIds \X {[lines |-> <<PlainLine("a3", 1)>>]})

TransferCreate(from_account_id, to_account_id, amount_minor, payee_id, notes, memo, tag_ids) ==
    [from_account_id |-> from_account_id, to_account_id |-> to_account_id,
     amount_minor |-> amount_minor, payee_id |-> payee_id, notes |-> notes,
     memo |-> memo, tag_ids |-> tag_ids]

\* TransferCreate payloads
TransferPayloads ==
    {TransferCreate(f, t, m, NULL, NULL, NULL, <<>>) :
        f \in {"a1", "a3"}, t \in {"a1", "a2"}, m \in Amounts}
    \cup {TransferCreate("a2", "a1", -1, p, "n", "m", tg) :
             p \in {NULL, "p1"}, tg \in {<<"t1", "t2", "t1">>, <<"t3">>}}

TransferRequests ==
    ({"b1"} \X TransferPayloads)
    \cup ({"b2"} \X {TransferCreate("a1", "a2", 1, NULL, NULL, NULL, <<>>)})

\* TransactionLineUpdate patches
TransactionLineUpdate(line_id, set, nulls, v) ==
    [line_id |-> line_id, set |-> set, nulls |-> nulls,
     account_id |-> v.account_id, category_id |-> v.category_id,
     payee_id |-> v.payee_id, amount_minor |-> v.amount_minor, memo |-> v.memo,
     tag_ids |-> v.tag_ids]

\* the values a patch sends: references of the budget, and references that
\* are not with a zero amount
ValidValues == LineDraft("a2", "c1", "p1", 1, "m", <<"t1", "t1">>)
InvalidValues == LineDraft("a3", "c2", "p2", 0, "m", <<"t1", "t3">>)

PatchFields ==
    {{"account_id"}, {"category_id"}, {"payee_id"}, {"amount_minor"},
     {"memo"}, {"tag_ids"}, {"account_id", "amount_minor"},
     {"account_id", "category_id", "payee_id", "amount_minor", "memo", "tag_ids"}}

NullFields ==
    {{"account_id"}, {"category_id"}, {"payee_id"}, {"amount_minor"}, {"memo"},
     {"tag_ids"}}

LinePatches(line_id) ==
    {TransactionLineUpdate(line_id, f, {}, v) :
        f \in PatchFields, v \in {ValidValues, InvalidValues}}
    \cup {TransactionLineUpdate(line_id, {}, {}, ValidValues)}
    \cup {TransactionLineUpdate(line_id, n, n, ValidValues) : n \in NullFields}

\* the patches of a request that patches two lines
PairPatches(line_id) ==
    {TransactionLineUpdate(line_id, f, {}, ValidValues) :
        f \in {{}, {"account_id"}, {"amount_minor"}}}

LineIds == 1..MaxLines

\* the lists of line patches: one patch of line 1 or 2, a memo for any other
\* line, and two patches of lines 1 and 2
SingleLinePayloads ==
    {<<p>> : p \in LinePatches(1) \cup LinePatches(2)}
    \cup {<<TransactionLineUpdate(l, {"memo"}, {}, ValidValues)>> : l \in LineIds \ {1, 2}}

PairLinePayloads ==
    {<<p, q>> :
        p \in PairPatches(1) \cup PairPatches(2),
        q \in PairPatches(1) \cup PairPatches(2)}

\* two patches of the tags of lines 1 and 2: known tags with a repetition, or
\* a list with a tag of another budget
TagPairPayloads ==
    {<<TransactionLineUpdate(1, {"tag_ids"}, {}, v), TransactionLineUpdate(2, {"tag_ids"}, {}, w)>> :
        v \in {ValidValues, InvalidValues}, w \in {ValidValues, InvalidValues}}

TransactionUpdate(set, nulls, posted_at, status, notes, import_id, lines) ==
    [set |-> set, nulls |-> nulls, posted_at |-> posted_at, status |-> status,
     notes |-> notes, import_id |-> import_id, lines |-> lines]

HeaderPatches ==
    {TransactionUpdate(s, {}, NaiveDatetime, RawVoid, "n", i, <<>>) :
        s \in {{}, {"posted_at"}, {"status"}, {"notes"}, {"import_id"},
               {"import_id", "notes"}},
        i \in {"i1", "i2"}}
    \cup {TransactionUpdate(s, s, NaiveDatetime, RawVoid, NULL, NULL, <<>>) :
             s \in {{"posted_at"}, {"status"}, {"notes"}, {"import_id"}, {"lines"},
                    {"import_id", "notes"}}}
    \cup {TransactionUpdate({"status"}, {}, NaiveDatetime, RawBogus, NULL, NULL, <<>>),
          TransactionUpdate({"status"}, {}, NaiveDatetime, RawPosted, NULL, NULL, <<>>),
          TransactionUpdate({"status"}, {}, NaiveDatetime, RawSpaced, NULL, NULL, <<>>),
          TransactionUpdate({"lines"}, {}, NaiveDatetime, RawVoid, NULL, NULL, <<>>),
          TransactionUpdate({"import_id", "status"}, {}, NaiveDatetime, RawBogus, NULL,
                            "i2", <<>>),
          TransactionUpdate({"import_id", "posted_at"}, {"posted_at"}, NaiveDatetime,
                            RawVoid, NULL, "i2", <<>>)}

\* TransactionUpdate payloads: header fields alone, line patches alone, and
\* line patches next to a header field
UpdatePayloads ==
    HeaderPatches
    \cup {TransactionUpdate({"lines"}, {}, NaiveDatetime, RawVoid, NULL, NULL, ls) :
             ls \in SingleLinePayloads \cup PairLinePayloads \cup TagPairPayloads}
    \cup {TransactionUpdate({"notes", "lines"}, {}, NaiveDatetime, RawVoid, "n", NULL, ls) :
             ls \in {<<p>> : p \in LinePatches(1)} \cup PairLinePayloads}

UpdateRequests ==
    ({"b1"} \X TxnIds \X UpdatePayloads)
    \cup ({"b2"} \X TxnIds \X
            {TransactionUpdate({"notes"}, {}, NaiveDatetime, RawVoid, "n", NULL, <<>>)})

\* TransactionBulkCreate payloads: drafts with an import_id and one line, in
\* batches of one or two, two batches of three that repeat an import_id, and
\* a batch whose first draft has another account and amount
BulkDraft(import_id, line) == TransactionCreate(<<>>, <<>>, NULL, import_id, line)

BulkDrafts ==
    {BulkDraft(i, l) : i \in {"i1", "i2"}, l \in {PlainLine("a1", -1), PlainLine("a1", 0)}}

TransactionBulkCreate(drafts) == [transactions |-> drafts]

BulkPayloads ==
    {TransactionBulkCreate(<<d>>) : d \in BulkDrafts}
    \cup {TransactionBulkCreate(<<d, e>>) : d, e \in BulkDrafts}
    \cup {TransactionBulkCreate(<<BulkDraft("i1", PlainLine("a1", -1)),
                                  BulkDraft("i2", PlainLine("a1", 1)),
                                  BulkDraft("i1", PlainLine("a2", 1))>>),
          TransactionBulkCreate(<<BulkDraft("i2", PlainLine("a1", 1)),
                                  BulkDraft("i1", PlainLine("a1", -1)),
                                  BulkDraft("i1", PlainLine("a2", 1))>>),
          TransactionBulkCreate(<<BulkDraft("i1", PlainLine("a2", 1)),
                                  BulkDraft("i2", PlainLine("a1", -1))>>)}

BulkRequests ==
    ({"b1"} \X BulkPayloads)
    \cup ({"b2"} \X {TransactionBulkCreate(<<BulkDraft("i1", PlainLine("a3", -1))>>)})

\* the ids of the rows a flush inserts: fresh, in no particular order
NewLineIds(db, n) ==
    IF n = 2
    THEN {<<db.ids.line + 1, db.ids.line + 2>>, <<db.ids.line + 2, db.ids.line + 1>>}
    ELSE {[i \in 1..n |-> db.ids.line + i]}

\* ------------------------------------------------------------------------
\* The state machine: one client sends one request at a time and waits for
\* the response
\* ------------------------------------------------------------------------
NoResponse == [op |-> "none", detail |-> OK]

\* one client, one request at a time: no two sessions are open together
NoSessions == <<>>

Init ==
    /\ budgets = BudgetRows
    /\ accounts = [a \in DOMAIN AccountBudget |-> [budget_id |-> AccountBudget[a]]]
    /\ categories =
           [c \in DOMAIN CategoryBudget |->
               [budget_id |-> CategoryBudget[c], parent_id |-> NULL]]
    /\ payees = [p \in DOMAIN PayeeBudget |-> [budget_id |-> PayeeBudget[p]]]
    /\ tags = [t \in DOMAIN TagBudget |-> [budget_id |-> TagBudget[t]]]
    /\ transactions = <<>>
    /\ transaction_lines = <<>>
    /\ transaction_line_tags = {}
    /\ ids = [txn |-> 0, line |-> 0]
    /\ clock = 1
    /\ commits = 0
    /\ response = NoResponse
    /\ sessions = NoSessions

\* the readings the clock can give next
Now == {clock, clock + 1} \cap 1..MaxClock

\* the end of a request: get_session commits or rolls back and the response
\* goes out.  A request that would commit is sent only while the model's
\* bounds leave room for it.
Respond(op, outcome, now) ==
    LET db == get_session(DB, outcome)
    IN /\ response = NoResponse
       /\ outcome.detail = OK =>
             /\ commits < MaxCommits
             /\ outcome.db.ids.txn <= MaxTxns
             /\ outcome.db.ids.line <= MaxLines
       /\ budgets' = db.budgets
       /\ accounts' = db.accounts
       /\ categories' = db.categories
       /\ payees' = db.payees
       /\ tags' = db.tags
       /\ transactions' = db.transactions
       /\ transaction_lines' = db.transaction_lines
       /\ transaction_line_tags' = db.transaction_line_tags
       /\ ids' = db.ids
       /\ clock' = IF outcome.detail = OK THEN now ELSE clock
       /\ commits' = IF outcome.detail = OK THEN commits + 1 ELSE commits
       /\ response' = [op |-> op, detail |-> outcome.detail]
       /\ sessions' = sessions

CreateTransaction ==
    \E r \in CreateRequests, now \in Now :
        \E new_ids \in NewLineIds(DB, 1) :
            Respond("create_transaction",
                    create_transaction(DB, r[1], r[2], now, new_ids), now)

CreateTransfer ==
    \E r \in TransferRequests, now \in Now :
        \E new_ids \in NewLineIds(DB, 2) :
            Respond("create_transfer",
                    create_transfer(DB, r[1], r[2], now, new_ids), now)

UpdateTransaction ==
    \E r \in UpdateRequests :
        Respond("update_transaction",
                update_transaction(DB, r[1], r[2], r[3], clock), clock)

SplitTransaction ==
    \E r \in SplitRequests :
        \E new_ids \in NewLineIds(DB, Len(r[3].lines)) :
            Respond("split_transaction",
                    split_transaction(DB, r[1], r[2], r[3], new_ids), clock)

\* GET /budgets/{budget_id}/transactions/{transaction_id}
GetTransaction ==
    /\ response = NoResponse
    /\ \E budget_id \in Budgets, transaction_id \in TxnIds :
          LET fetched == get_transaction(DB, budget_id, transaction_id)
          IN response' = [op |-> "get_transaction", detail |-> fetched.detail,
                          budget_id |-> budget_id, transaction_id |-> transaction_id,
                          body |-> fetched.body]
    /\ UNCHANGED <<budgets, accounts, categories, payees, tags, transactions, transaction_lines,
                   transaction_line_tags, ids, clock, commits, sessions>>

\* the end of a bulk import: as Respond, and the response carries the status
\* and the counts
RespondBulk(outcome, now) ==
    LET db == get_session(DB, outcome)
    IN /\ response = NoResponse
       /\ outcome.detail = OK =>
             /\ commits < MaxCommits
             /\ outcome.db.ids.txn <= MaxTxns
             /\ outcome.db.ids.line <= MaxLines
       /\ budgets' = db.budgets
       /\ accounts' = db.accounts
       /\ categories' = db.categories
       /\ payees' = db.payees
       /\ tags' = db.tags
       /\ transactions' = db.transactions
       /\ transaction_lines' = db.transaction_lines
       /\ transaction_line_tags' = db.transaction_line_tags
       /\ ids' = db.ids
       /\ clock' = IF outcome.detail = OK THEN now ELSE clock
       /\ commits' = IF outcome.detail = OK THEN commits + 1 ELSE commits
       /\ response' = [op |-> "bulk_import_transactions", detail |-> outcome.detail,
                       errors |-> outcome.errors,
                       created_count |-> outcome.created_count,
                       existing_count |-> outcome.existing_count,
                       status_code |-> outcome.status_code]
       /\ sessions' = sessions

BulkImportTransactions ==
    \E r \in BulkRequests, now \in Now :
        RespondBulk(bulk_import_transactions(DB, r[1], r[2], now), now)

DeleteTransaction ==
    \E budget_id \in Budgets, transaction_id \in TxnIds :
        Respond("delete_transaction",
                delete_transaction(DB, budget_id, transaction_id), clock)

DeleteCategory ==
    \E budget_id \in Budgets, category_id \in DOMAIN CategoryBudget :
        Respond("delete_category", delete_category(DB, budget_id, category_id), clock)

DeletePayee ==
    \E budget_id \in Budgets, payee_id \in DOMAIN PayeeBudget :
        Respond("delete_payee", delete_payee(DB, budget_id, payee_id), clock)

DeleteTag ==
    \E budget_id \in Budgets, tag_id \in DOMAIN TagBudget :
        Respond("delete_tag", delete_tag(DB, budget_id, tag_id), clock)

\* the client receives the response; get_session closes the session
ReceiveResponse ==
    /\ response # NoResponse
    /\ response' = NoResponse
    /\ UNCHANGED <<budgets, accounts, categories, payees, tags, transactions,
                   transaction_lines, transaction_line_tags, ids, clock, commits,
                   sessions>>

Next ==
    \/ CreateTransaction
    \/ GetTransaction
    \/ CreateTransfer
    \/ UpdateTransaction
    \/ SplitTransaction
    \/ BulkImportTransactions
    \/ DeleteTransaction
    \/ DeleteCategory
    \/ DeletePayee
    \/ DeleteTag
    \/ ReceiveResponse

Spec == Init /\ [][Next]_vars

\* ------------------------------------------------------------------------
\* Two requests at the same time.  Each runs in a session of its own
\* (db.get_session) on a store with READ COMMITTED isolation: a session sees
\* the committed rows and its own; an insert of a (budget_id, import_id) that
\* another open session has inserted waits until that session ends; the
\* unique constraint fails the insert when the other row is committed.
\* ------------------------------------------------------------------------
SessionIds == {"s1", "s2"}

\* the response of a bulk import that lost a race on the unique constraint
\* (specification, sections 5 and 7)
Conflict == "Conflict"

NoWrites == [transactions |-> <<>>, transaction_lines |-> <<>>, transaction_line_tags |-> {}]

\* a session before its request arrives
IdleSession ==
    [pc |-> "idle", op |-> "none", budget_id |-> NULL, import_ids |-> {},
     drafts |-> <<>>, writes |-> NoWrites, written |-> {}, written_lines |-> {},
     created_count |-> 0, existing_count |-> 0, detail |-> OK, status_code |-> 0,
     cause |-> "none"]

\* the requests that race: create_transaction and bulk imports on import_id
\* i1 (and i2) of budget b1, a create_transaction without import_id, and a
\* create_transaction with i1 in budget b2
SessionRequests ==
    {[op |-> "create_transaction", budget_id |-> "b1",
      drafts |-> <<BulkDraft(i, PlainLine("a1", -1))>>] : i \in {"i1", NULL}}
    \cup {[op |-> "create_transaction", budget_id |-> "b2",
           drafts |-> <<BulkDraft("i1", PlainLine("a3", -1))>>]}
    \cup {[op |-> "bulk_import_transactions", budget_id |-> "b1", drafts |-> d] :
             d \in {<<BulkDraft("i1", PlainLine("a1", -1))>>,
                    <<BulkDraft("i1", PlainLine("a1", -1)), BulkDraft("i2", PlainLine("a1", 1))>>,
                    <<BulkDraft("i2", PlainLine("a1", 1)), BulkDraft("i1", PlainLine("a1", -1))>>,
                    <<BulkDraft("i2", PlainLine("a1", 1)), BulkDraft("i1", PlainLine("a1", 0))>>,
                    <<BulkDraft("i1", PlainLine("a1", -1)), BulkDraft("i1", PlainLine("a2", 1))>>}}

Merge(f, g) == [x \in DOMAIN f \cup DOMAIN g |-> IF x \in DOMAIN g THEN g[x] ELSE f[x]]

\* what session s reads: the committed rows and the rows it wrote
View(s) ==
    [DB EXCEPT
       !.transactions = Merge(transactions, sessions[s].writes.transactions),
       !.transaction_lines = Merge(transaction_lines, sessions[s].writes.transaction_lines),
       !.transaction_line_tags =
           transaction_line_tags \cup sessions[s].writes.transaction_line_tags]

\* another open session has inserted a row with the key and not ended yet
Blocked(s, budget_id, import_id) ==
    /\ import_id # NULL
    /\ \E o \in SessionIds \ {s} :
          \E t \in DOMAIN sessions[o].writes.transactions :
              /\ sessions[o].writes.transactions[t].budget_id = budget_id
              /\ sessions[o].writes.transactions[t].import_id = import_id

\* the session waits for the end of another one to insert its next draft
Waiting(s) ==
    /\ sessions[s].pc = "insert"
    /\ create_transaction(View(s), sessions[s].budget_id, Head(sessions[s].drafts),
                          clock, <<ids.line + 1>>).detail = OK
    /\ Blocked(s, sessions[s].budget_id, Head(sessions[s].drafts).import_id)

ConcurrentInit ==
    /\ budgets = BudgetRows
    /\ accounts = [a \in DOMAIN AccountBudget |-> [budget_id |-> AccountBudget[a]]]
    /\ categories =
           [c \in DOMAIN CategoryBudget |->
               [budget_id |-> CategoryBudget[c], parent_id |-> NULL]]
    /\ payees = [p \in DOMAIN PayeeBudget |-> [budget_id |-> PayeeBudget[p]]]
    /\ tags = [t \in DOMAIN TagBudget |-> [budget_id |-> TagBudget[t]]]
    /\ transactions = <<>>
    /\ transaction_lines = <<>>
    /\ transaction_line_tags = {}
    /\ ids = [txn |-> 0, line |-> 0]
    /\ clock = 1
    /\ commits = 0
    /\ response = NoResponse
    /\ sessions = [s \in SessionIds |-> IdleSession]

\* a request arrives and get_session opens its session
Begin(s) ==
    /\ sessions[s].pc = "idle"
    /\ \E r \in SessionRequests :
          sessions' =
              [sessions EXCEPT ![s] =
                  [IdleSession EXCEPT !.pc = "start", !.op = r.op,
                                      !.budget_id = r.budget_id, !.drafts = r.drafts,
                                      !.import_ids =
                                          {r.drafts[i].import_id : i \in DOMAIN r.drafts}
                                          \ {NULL}]]
    /\ UNCHANGED <<budgets, accounts, categories, payees, tags, transactions, transaction_lines,
                   transaction_line_tags, ids, clock, commits, response>>

\* a bulk import looks for import_ids repeated in its batch
CheckBatch(s) ==
    /\ sessions[s].pc = "start"
    /\ sessions' =
          [sessions EXCEPT ![s] =
              IF /\ sessions[s].op = "bulk_import_transactions"
                 /\ DuplicateIndexes(sessions[s].drafts) # {}
              THEN [@ EXCEPT !.pc = "raised", !.detail = DuplicateImportId,
                             !.status_code = 400]
              ELSE [@ EXCEPT !.pc = "draft"]]
    /\ UNCHANGED <<budgets, accounts, categories, payees, tags, transactions, transaction_lines,
                   transaction_line_tags, ids, clock, commits, response>>

\* the next draft: a bulk import looks its import_id up and skips it when it
\* sees a row with it; create_transaction does not look
NextDraft(s) ==
    /\ sessions[s].pc = "draft"
    /\ sessions' =
          [sessions EXCEPT ![s] =
              IF sessions[s].drafts = <<>> THEN [@ EXCEPT !.pc = "commit"]
              ELSE IF /\ sessions[s].op = "bulk_import_transactions"
                      /\ import_id_exists(View(s), sessions[s].budget_id,
                                          Head(sessions[s].drafts).import_id)
              THEN [@ EXCEPT !.drafts = Tail(@),
                             !.existing_count = @ + 1]
              ELSE [@ EXCEPT !.pc = "insert"]]
    /\ UNCHANGED <<budgets, accounts, categories, payees, tags, transactions, transaction_lines,
                   transaction_line_tags, ids, clock, commits, response>>

\* create_transaction for the draft: validation, then the inserts.  The
\* insert of the header waits while another session holds the key.
Insert(s) ==
    LET me == sessions[s]
        created == create_transaction(View(s), me.budget_id, Head(me.drafts), clock,
                                      <<ids.line + 1>>)
        new_transactions == DOMAIN created.db.transactions \ DOMAIN transactions
        new_lines == DOMAIN created.db.transaction_lines \ DOMAIN transaction_lines
    IN /\ me.pc = "insert"
       /\ ~Waiting(s)
       /\ IF created.detail = OK
          THEN /\ ids' = created.db.ids
               /\ sessions' =
                     [sessions EXCEPT ![s] =
                         [@ EXCEPT
                            !.pc = "draft",
                            !.drafts = Tail(@),
                            !.created_count = @ + 1,
                            !.written = new_transactions,
                            !.written_lines = new_lines,
                            !.writes =
                                [transactions |->
                                     [t \in new_transactions |-> created.db.transactions[t]],
                                 transaction_lines |->
                                     [l \in new_lines |-> created.db.transaction_lines[l]],
                                 transaction_line_tags |->
                                     created.db.transaction_line_tags
                                        \ transaction_line_tags]]]
          ELSE /\ ids' = ids
               /\ sessions' =
                     [sessions EXCEPT ![s] =
                         IF created.detail # IntegrityError
                         THEN [@ EXCEPT !.pc = "raised", !.detail = created.detail,
                                        !.status_code = StatusOfDetail(created.detail)]
                         ELSE IF me.op = "bulk_import_transactions"
                         THEN [@ EXCEPT !.pc = "raised", !.detail = Conflict,
                                        !.status_code = 409, !.cause = "unique"]
                         ELSE [@ EXCEPT !.pc = "raised", !.detail = IntegrityError,
                                        !.status_code = StatusOfDetail(IntegrityError),
                                        !.cause = "unique"]]
       /\ UNCHANGED <<budgets, accounts, categories, payees, tags, transactions, transaction_lines,
                      transaction_line_tags, clock, commits, response>>

\* two sessions wait for each other: the store ends one of them with an
\* error that nothing handles
DeadlockAbort(s) ==
    /\ Waiting(s)
    /\ \E o \in SessionIds \ {s} : Waiting(o)
    /\ sessions' =
          [sessions EXCEPT ![s] =
              [@ EXCEPT !.pc = "raised", !.detail = IntegrityError,
                        !.status_code = 500, !.cause = "deadlock"]]
    /\ UNCHANGED <<budgets, accounts, categories, payees, tags, transactions, transaction_lines,
                   transaction_line_tags, ids, clock, commits, response>>

\* get_session: the handler returned, session.commit()
Commit(s) ==
    LET me == sessions[s]
    IN /\ me.pc = "commit"
       /\ transactions' = Merge(transactions, me.writes.transactions)
       /\ transaction_lines' = Merge(transaction_lines, me.writes.transaction_lines)
       /\ transaction_line_tags' =
             transaction_line_tags \cup me.writes.transaction_line_tags
       /\ commits' = commits + 1
       /\ sessions' =
             [sessions EXCEPT ![s] =
                 [@ EXCEPT !.pc = "done", !.writes = NoWrites,
                           !.status_code =
                               IF me.op = "bulk_import_transactions"
                               THEN BulkStatus(me.created_count, me.existing_count)
                               ELSE 201]]
       /\ UNCHANGED <<budgets, accounts, categories, payees, tags, ids, clock, response>>

\* get_session: the handler raised, session.rollback()
Rollback(s) ==
    /\ sessions[s].pc = "raised"
    /\ sessions' = [sessions EXCEPT ![s] = [@ EXCEPT !.pc = "done", !.writes = NoWrites]]
    /\ UNCHANGED <<budgets, accounts, categories, payees, tags, transactions, transaction_lines,
                   transaction_line_tags, ids, clock, commits, response>>

ConcurrentNext ==
    \E s \in SessionIds :
        \/ Begin(s)
        \/ CheckBatch(s)
        \/ NextDraft(s)
        \/ Insert(s)
        \/ DeadlockAbort(s)
        \/ Commit(s)
        \/ Rollback(s)

ConcurrentSpec == ConcurrentInit /\ [][ConcurrentNext]_vars

\* ------------------------------------------------------------------------
\* Listing.  Transaction ids are uuid4 values and tests set created_at
\* directly, so the order of the ids says nothing about posted_at or
\* created_at: the ledgers listed are all the ledgers of up to MaxListed
\* transactions, each with one line.
\* ------------------------------------------------------------------------
ListedRows ==
    [budget_id : Budgets, posted_at : 1..MaxClock, status : {"posted"}, notes : {NULL},
     import_id : {NULL}, created_at : 1..MaxClock]

ListInit ==
    /\ budgets = BudgetRows
    /\ accounts = [a \in DOMAIN AccountBudget |-> [budget_id |-> AccountBudget[a]]]
    /\ categories =
           [c \in DOMAIN CategoryBudget |->
               [budget_id |-> CategoryBudget[c], parent_id |-> NULL]]
    /\ payees = [p \in DOMAIN PayeeBudget |-> [budget_id |-> PayeeBudget[p]]]
    /\ tags = [t \in DOMAIN TagBudget |-> [budget_id |-> TagBudget[t]]]
    /\ transactions \in UNION {[S -> ListedRows] : S \in SUBSET (1..MaxListed)}
    /\ transaction_lines =
           [t \in DOMAIN transactions |->
               [transaction_id |-> t,
                account_id |-> IF transactions[t].budget_id = "b1" THEN "a1" ELSE "a3",
                category_id |-> NULL, payee_id |-> NULL, amount_minor |-> -1,
                memo |-> NULL]]
    /\ transaction_line_tags = {}
    /\ ids = [txn |-> MaxListed, line |-> MaxListed]
    /\ clock = MaxClock
    /\ commits = 0
    /\ response = NoResponse
    /\ sessions = NoSessions

\* GET /budgets/{budget_id}/transactions
ListTransactions ==
    /\ response = NoResponse
    /\ \E budget_id \in Budgets :
          response' = [op |-> "list_transactions", detail |-> OK, budget_id |-> budget_id,
                       body |-> list_transactions(DB, budget_id)]
    /\ UNCHANGED <<budgets, accounts, categories, payees, tags, transactions, transaction_lines,
                   transaction_line_tags, ids, clock, commits, sessions>>

ListNext == ListTransactions \/ ReceiveResponse

ListSpec == ListInit /\ [][ListNext]_vars

\* ========================================================================
\* Categories: routers/categories.py, CategoriesService, CategoriesDataAccess
\*
\* A category row here has a name next to budget_id and parent_id;
\* is_archived and sort_order are written as sent and read by no check.
\* ========================================================================
CategoryNameExists == "Category name already exists."
CategoryOwnParent == "Category cannot be its own parent."
ParentCategoryNotFound == "Parent category not found."
NestedTooDeep == "Nested categories cannot be deeper than one level."
MultipleResultsFound == "Internal Server Error"

\* the ids new categories get, in the order they are issued
CategoryIds == <<"c1", "c2", "c3", "c4", "c5">>
UnknownCategory == "c9"
CategoryNames == {"x", "y", "z"}

\* CategoriesDataAccess.get_category_by_name: the rows the statement selects
get_category_by_name(db, budget_id, name, exclude_category_id) ==
    {c \in DOMAIN db.categories :
        /\ db.categories[c].budget_id = budget_id
        /\ db.categories[c].name = name
        /\ c # exclude_category_id}

\* CategoriesDataAccess.has_children: scalar_one_or_none() of the ids of the
\* children; it raises MultipleResultsFound when there are two or more
has_children(db, category_id) ==
    LET children == {c \in DOMAIN db.categories : db.categories[c].parent_id = category_id}
    IN IF children = {} THEN "no"
       ELSE IF Cardinality(children) = 1 THEN "yes"
       ELSE MultipleResultsFound

\* mutant: a parent that has a parent itself is accepted
_validate_parent_id_any_depth(db, budget_id, parent_id, category_id) ==
    IF parent_id = NULL THEN OK
    ELSE IF category_id # NULL /\ parent_id = category_id THEN CategoryOwnParent
    ELSE IF \/ parent_id \notin DOMAIN db.categories
            \/ db.categories[parent_id].budget_id # budget_id
         THEN ParentCategoryNotFound
    ELSE OK

\* CategoriesService._validate_parent_id: the detail it raises, or OK
_validate_parent_id(db, budget_id, parent_id, category_id) ==
    IF parent_id = NULL THEN OK
    ELSE IF category_id # NULL /\ parent_id = category_id THEN CategoryOwnParent
    ELSE IF \/ parent_id \notin DOMAIN db.categories
            \/ db.categories[parent_id].budget_id # budget_id
         THEN ParentCategoryNotFound
    ELSE IF db.categories[parent_id].parent_id # NULL THEN NestedTooDeep
    ELSE OK

\* CategoriesDataAccess.create_category
store_create_category(db, id, budget_id, name, parent_id) ==
    [db EXCEPT
       !.categories =
           [c \in DOMAIN db.categories \cup {id} |->
               IF c = id
               THEN [budget_id |-> budget_id, parent_id |-> parent_id, name |-> name]
               ELSE db.categories[c]],
       !.ids = [@ EXCEPT !.category = @ + 1]]

\* CategoriesService.create_category
create_category(db, budget_id, payload) ==
    LET checked == _validate_parent_id(db, budget_id, payload.parent_id, NULL)
        id == CategoryIds[db.ids.category + 1]
    IN IF get_category_by_name(db, budget_id, payload.name, NULL) # {}
       THEN Raise(CategoryNameExists, db)
       ELSE IF checked # OK THEN Raise(checked, db)
       ELSE Return(store_create_category(db, id, budget_id, payload.name,
                                         payload.parent_id))

\* routers/utils.py reject_null_updates: the detail names the null fields
FieldsCannotBeNull(null_fields) ==
    IF null_fields = {"name"} THEN "Fields cannot be null: name"
    ELSE IF null_fields = {"parent_id"} THEN "Fields cannot be null: parent_id"
    ELSE "Fields cannot be null: name, parent_id"

\* routers/utils.py extract_updates: the detail it raises, or OK
extract_updates(payload) ==
    IF payload.nulls # {} THEN FieldsCannotBeNull(payload.nulls)
    ELSE IF payload.set = {} THEN NoFieldsToUpdate
    ELSE OK

\* CategoriesDataAccess.update_category: setattr for every update
store_update_category(db, category_id, payload) ==
    [db EXCEPT
       !.categories[category_id] =
           [f \in DOMAIN @ |-> IF f \in payload.set THEN payload[f] ELSE @[f]]]

\* PATCH /budgets/{budget_id}/categories/{category_id}: extract_updates, then
\* CategoriesService.update_category
update_category(db, budget_id, category_id, payload) ==
    LET extracted == extract_updates(payload)
        children == has_children(db, category_id)
        checked == _validate_parent_id(db, budget_id, payload.parent_id, category_id)
    IN IF extracted # OK THEN Raise(extracted, db)
       ELSE IF ~category_exists_in_budget(db, category_id, budget_id)
            THEN Raise(CategoryNotFound, db)
       ELSE IF /\ IsSet(payload, "name")
               /\ get_category_by_name(db, budget_id, payload.name, category_id) # {}
            THEN Raise(CategoryNameExists, db)
       ELSE IF /\ IsSet(payload, "parent_id")
               /\ payload.parent_id # NULL
               /\ children = MultipleResultsFound
            THEN Raise(MultipleResultsFound, db)
       ELSE IF /\ IsSet(payload, "parent_id")
               /\ payload.parent_id # NULL
               /\ children = "yes"
            THEN Raise(NestedTooDeep, db)
       ELSE IF IsSet(payload, "parent_id") /\ checked # OK THEN Raise(checked, db)
       ELSE Return(store_update_category(db, category_id, payload))

\* ========================================================================
\* The category hierarchy: category create, update and delete, and payee and
\* tag delete, over a ledger that does not change
\* ========================================================================
CategoryCreate(name, parent_id) == [name |-> name, parent_id |-> parent_id]

ParentIds == Range(CategoryIds) \cup {UnknownCategory}

CategoryCreatePayloads ==
    {CategoryCreate(name, parent_id) :
        name \in CategoryNames, parent_id \in {NULL} \cup ParentIds}

CategoryUpdate(set, nulls, name, parent_id) ==
    [set |-> set, nulls |-> nulls, name |-> name, parent_id |-> parent_id]

CategoryUpdatePayloads ==
    {CategoryUpdate(set, {}, name, parent_id) :
        set \in SUBSET {"name", "parent_id"}, name \in CategoryNames,
        parent_id \in ParentIds}
    \cup {CategoryUpdate(set, set, NULL, NULL) :
             set \in {{"name"}, {"parent_id"}, {"name", "parent_id"}}}

\* the ledgers the categories are managed next to: none, or a categorised
\* line with a payee and tags, a transfer with a payee and a tag, a split
\* with a line of a child category, and a transaction of the other budget
CategoryLedgerHeader(budget_id) ==
    [budget_id |-> budget_id, posted_at |-> 1, status |-> "posted", notes |-> NULL,
     import_id |-> NULL, created_at |-> 1]

CategoryLedgerLine(transaction_id, account_id, category_id, payee_id, amount_minor) ==
    [transaction_id |-> transaction_id, account_id |-> account_id,
     category_id |-> category_id, payee_id |-> payee_id,
     amount_minor |-> amount_minor, memo |-> "m"]

CategoryLedgers ==
    {[transactions |-> <<>>, transaction_lines |-> <<>>, transaction_line_tags |-> {},
      ids |-> [txn |-> 0, line |-> 0, category |-> 3]],
     [transactions |->
          <<CategoryLedgerHeader("b1"), CategoryLedgerHeader("b1"),
            CategoryLedgerHeader("b1"), CategoryLedgerHeader("b2")>>,
      transaction_lines |->
          <<CategoryLedgerLine(1, "a1", "c1", "p1", -1),
            CategoryLedgerLine(2, "a1", NULL, "p1", -1),
            CategoryLedgerLine(2, "a2", NULL, NULL, 1),
            CategoryLedgerLine(3, "a2", "c3", NULL, 1),
            CategoryLedgerLine(4, "a3", "c2", "p2", -1),
            CategoryLedgerLine(3, "a2", "c1", "p1", 1)>>,
      transaction_line_tags |->
          {<<1, "t1">>, <<1, "t2">>, <<3, "t1">>, <<5, "t3">>},
      ids |-> [txn |-> 4, line |-> 6, category |-> 3]]}

\* c1 and its child c3 in budget b1, c2 in budget b2
CategoryInit ==
    /\ budgets = BudgetRows
    /\ accounts = [a \in DOMAIN AccountBudget |-> [budget_id |-> AccountBudget[a]]]
    /\ categories =
           [c \in {"c1", "c2", "c3"} |->
               [budget_id |-> IF c = "c2" THEN "b2" ELSE "b1",
                parent_id |-> IF c = "c3" THEN "c1" ELSE NULL,
                name |-> IF c = "c3" THEN "y" ELSE "x"]]
    /\ payees = [p \in DOMAIN PayeeBudget |-> [budget_id |-> PayeeBudget[p]]]
    /\ tags = [t \in DOMAIN TagBudget |-> [budget_id |-> TagBudget[t]]]
    /\ \E ledger \in CategoryLedgers :
          /\ transactions = ledger.transactions
          /\ transaction_lines = ledger.transaction_lines
          /\ transaction_line_tags = ledger.transaction_line_tags
          /\ ids = ledger.ids
    /\ clock = 1
    /\ commits = 0
    /\ response = NoResponse
    /\ sessions = NoSessions

\* the end of a request, as in Respond
CategoryRespond(op, outcome) ==
    LET db == get_session(DB, outcome)
    IN /\ response = NoResponse
       /\ outcome.detail = OK => commits < MaxCategoryCommits
       /\ budgets' = db.budgets
       /\ accounts' = db.accounts
       /\ categories' = db.categories
       /\ payees' = db.payees
       /\ tags' = db.tags
       /\ transactions' = db.transactions
       /\ transaction_lines' = db.transaction_lines
       /\ transaction_line_tags' = db.transaction_line_tags
       /\ ids' = db.ids
       /\ clock' = clock
       /\ commits' = IF outcome.detail = OK THEN commits + 1 ELSE commits
       /\ response' = [op |-> op, detail |-> outcome.detail]
       /\ sessions' = sessions

\* POST /budgets/{budget_id}/categories
CreateCategory ==
    /\ ids.category < Len(CategoryIds)
    /\ \E budget_id \in Budgets, payload \in CategoryCreatePayloads :
          CategoryRespond("create_category", create_category(DB, budget_id, payload))

\* PATCH /budgets/{budget_id}/categories/{category_id}
UpdateCategory ==
    \E budget_id \in Budgets, category_id \in ParentIds,
       payload \in CategoryUpdatePayloads :
        CategoryRespond("update_category",
                        update_category(DB, budget_id, category_id, payload))

\* DELETE /budgets/{budget_id}/categories/{category_id}
DeleteCategoryRow ==
    \E budget_id \in Budgets, category_id \in ParentIds :
        CategoryRespond("delete_category", delete_category(DB, budget_id, category_id))

\* DELETE /budgets/{budget_id}/payees/{payee_id}
DeletePayeeRow ==
    \E budget_id \in Budgets, payee_id \in DOMAIN PayeeBudget :
        CategoryRespond("delete_payee", delete_payee(DB, budget_id, payee_id))

\* DELETE /budgets/{budget_id}/tags/{tag_id}
DeleteTagRow ==
    \E budget_id \in Budgets, tag_id \in DOMAIN TagBudget :
        CategoryRespond("delete_tag", delete_tag(DB, budget_id, tag_id))

CategoryNext ==
    \/ CreateCategory
    \/ UpdateCategory
    \/ DeleteCategoryRow
    \/ DeletePayeeRow
    \/ DeleteTagRow
    \/ ReceiveResponse

CategorySpec == CategoryInit /\ [][CategoryNext]_vars

\* ========================================================================
\* Budgets and accounts: BudgetsService, AccountsService and their stores
\*
\* A budget row carries its members (the budget_members rows); an account
\* row here has name, currency_code and is_active next to budget_id.  The
\* account type is written as sent and read by no check.
\* ========================================================================
BudgetNotFound == "Budget not found."
NotAuthorizedToUpdateBudget == "Not authorized to update budget."
NotAuthorizedToManageAccounts == "Not authorized to manage accounts."
UnknownBaseCurrencyCode == "Unknown base currency code."
UnknownCurrencyCode == "Unknown currency code."
CurrencyMustMatch == "Account currency must match budget base currency."
AccountNameExists == "Account name already exists."

\* the ids new budgets and accounts get, in the order they are issued
BudgetIds == <<"b1", "b2">>
AccountIds == <<"a1", "a2", "a3">>
Users == {"u1", "u2"}
BudgetNames == {"n", "m"}
AccountNames == {"x", "y"}

\* CurrenciesTable: the seeded codes
Currencies == {"USD", "EUR"}

\* the currency codes a request sends
RawCurrencyCodes == {"USD", "EUR", "eur", "ZZZ"}

\* str.upper() on the codes a request sends
Upper(code) == IF code = "eur" THEN "EUR" ELSE code

\* CurrenciesDataAccess.get_currency found a row
get_currency(code) == code \in Currencies

\* BudgetsDataAccess.budget_member_exists
budget_member_exists(db, budget_id, user_id) == user_id \in db.budgets[budget_id].members

\* BudgetsDataAccess.create_budget, then add_budget_member for the owner
store_create_budget(db, id, name, base_currency_code, owner_user_id) ==
    [db EXCEPT
       !.budgets =
           [b \in DOMAIN db.budgets \cup {id} |->
               IF b = id
               THEN [name |-> name, base_currency_code |-> base_currency_code,
                     members |-> {owner_user_id}]
               ELSE db.budgets[b]],
       !.ids = [@ EXCEPT !.budget = @ + 1]]

\* BudgetsService.create_budget
create_budget(db, name, base_currency_code, owner_user_id) ==
    LET currency_code == Upper(base_currency_code)
        id == BudgetIds[db.ids.budget + 1]
    IN IF ~get_currency(currency_code) THEN Raise(UnknownBaseCurrencyCode, db)
       ELSE Return(store_create_budget(db, id, name, currency_code, owner_user_id))

\* AccountsDataAccess.deactivate_accounts_by_budget
deactivate_accounts_by_budget(db, budget_id) ==
    [db EXCEPT
       !.accounts =
           [a \in DOMAIN db.accounts |->
               IF db.accounts[a].budget_id = budget_id
               THEN [db.accounts[a] EXCEPT !.is_active = FALSE]
               ELSE db.accounts[a]]]

\* BudgetsDataAccess.update_budget / AccountsDataAccess.update_account:
\* setattr for every update
SetAttrs(row, updates) ==
    [f \in DOMAIN row |-> IF f \in DOMAIN updates THEN updates[f] ELSE row[f]]

\* mutant: the accounts stay active when the base currency changes
update_budget_keeping_accounts(db, budget_id, updates, user_id) ==
    IF budget_id \notin DOMAIN db.budgets THEN Raise(BudgetNotFound, db)
    ELSE IF ~budget_member_exists(db, budget_id, user_id)
         THEN Raise(NotAuthorizedToUpdateBudget, db)
    ELSE IF "base_currency_code" \notin DOMAIN updates
         THEN Return([db EXCEPT !.budgets[budget_id] = SetAttrs(@, updates)])
    ELSE LET currency_code == Upper(updates.base_currency_code)
             normalized == [updates EXCEPT !.base_currency_code = currency_code]
         IN IF ~get_currency(currency_code) THEN Raise(UnknownBaseCurrencyCode, db)
            ELSE Return([db EXCEPT !.budgets[budget_id] = SetAttrs(@, normalized)])

\* BudgetsService.update_budget
update_budget(db, budget_id, updates, user_id) ==
    IF budget_id \notin DOMAIN db.budgets THEN Raise(BudgetNotFound, db)
    ELSE IF ~budget_member_exists(db, budget_id, user_id)
         THEN Raise(NotAuthorizedToUpdateBudget, db)
    ELSE IF "base_currency_code" \notin DOMAIN updates
         THEN Return([db EXCEPT !.budgets[budget_id] = SetAttrs(@, updates)])
    ELSE LET budget == db.budgets[budget_id]
             currency_code == Upper(updates.base_currency_code)
             deactivated ==
                 IF currency_code # budget.base_currency_code
                 THEN deactivate_accounts_by_budget(db, budget_id)
                 ELSE db
             normalized == [updates EXCEPT !.base_currency_code = currency_code]
         IN IF ~get_currency(currency_code) THEN Raise(UnknownBaseCurrencyCode, db)
            ELSE Return([deactivated EXCEPT !.budgets[budget_id] = SetAttrs(@, normalized)])

\* AccountsService._get_budget_for_member: the detail it raises, or OK
_get_budget_for_member(db, budget_id, user_id) ==
    IF budget_id \notin DOMAIN db.budgets THEN BudgetNotFound
    ELSE IF ~budget_member_exists(db, budget_id, user_id)
         THEN NotAuthorizedToManageAccounts
    ELSE OK

\* AccountsDataAccess.get_account_by_name: the rows the statement selects
get_account_by_name(db, budget_id, name, exclude_account_id) ==
    {a \in DOMAIN db.accounts :
        /\ db.accounts[a].budget_id = budget_id
        /\ db.accounts[a].name = name
        /\ a # exclude_account_id}

\* AccountsDataAccess.create_account
store_create_account(db, id, budget_id, name, currency_code, is_active) ==
    [db EXCEPT
       !.accounts =
           [a \in DOMAIN db.accounts \cup {id} |->
               IF a = id
               THEN [budget_id |-> budget_id, name |-> name,
                     currency_code |-> currency_code, is_active |-> is_active]
               ELSE db.accounts[a]],
       !.ids = [@ EXCEPT !.account = @ + 1]]

\* mutant: any known currency is accepted for a new account
create_account_any_currency(db, budget_id, payload, user_id) ==
    LET member == _get_budget_for_member(db, budget_id, user_id)
        normalized_currency_code == Upper(payload.currency_code)
        id == AccountIds[db.ids.account + 1]
    IN IF member # OK THEN Raise(member, db)
       ELSE IF ~get_currency(normalized_currency_code) THEN Raise(UnknownCurrencyCode, db)
       ELSE IF get_account_by_name(db, budget_id, payload.name, NULL) # {}
            THEN Raise(AccountNameExists, db)
       ELSE Return(store_create_account(db, id, budget_id, payload.name,
                                        normalized_currency_code, payload.is_active))

\* AccountsService.create_account
create_account(db, budget_id, payload, user_id) ==
    LET member == _get_budget_for_member(db, budget_id, user_id)
        normalized_currency_code == Upper(payload.currency_code)
        id == AccountIds[db.ids.account + 1]
    IN IF member # OK THEN Raise(member, db)
       ELSE IF ~get_currency(normalized_currency_code) THEN Raise(UnknownCurrencyCode, db)
       ELSE IF normalized_currency_code # db.budgets[budget_id].base_currency_code
            THEN Raise(CurrencyMustMatch, db)
       ELSE IF get_account_by_name(db, budget_id, payload.name, NULL) # {}
            THEN Raise(AccountNameExists, db)
       ELSE Return(store_create_account(db, id, budget_id, payload.name,
                                        normalized_currency_code, payload.is_active))

\* the currency checks of update_account: the detail they raise, or OK
AccountCurrencyCheck(budget, account, updates) ==
    IF "currency_code" \in DOMAIN updates
    THEN IF ~get_currency(Upper(updates.currency_code)) THEN UnknownCurrencyCode
         ELSE IF Upper(updates.currency_code) # budget.base_currency_code
              THEN CurrencyMustMatch
         ELSE OK
    ELSE IF account.currency_code # budget.base_currency_code THEN CurrencyMustMatch
    ELSE OK

\* AccountsService.update_account
update_account(db, budget_id, account_id, updates, user_id) ==
    LET member == _get_budget_for_member(db, budget_id, user_id)
        budget == db.budgets[budget_id]
        account == db.accounts[account_id]
        currency == AccountCurrencyCheck(budget, account, updates)
        normalized ==
            IF "currency_code" \in DOMAIN updates
            THEN [updates EXCEPT !.currency_code = Upper(updates.currency_code)]
            ELSE updates
    IN IF member # OK THEN Raise(member, db)
       ELSE IF \/ account_id \notin DOMAIN db.accounts
               \/ db.accounts[account_id].budget_id # budget_id
            THEN Raise(AccountNotFound, db)
       ELSE IF currency # OK THEN Raise(currency, db)
       ELSE IF /\ "name" \in DOMAIN updates
               /\ get_account_by_name(db, account.budget_id, updates.name, account_id) # {}
            THEN Raise(AccountNameExists, db)
       ELSE Return([db EXCEPT !.accounts[account_id] = SetAttrs(@, normalized)])

\* ========================================================================
\* Budgets and accounts, one request at a time
\* ========================================================================
\* the dicts of the fields a PATCH sends
BudgetUpdates ==
    {[name |-> n] : n \in BudgetNames}
    \cup {[base_currency_code |-> c] : c \in RawCurrencyCodes}
    \cup {[name |-> n, base_currency_code |-> c] : n \in {"m"}, c \in {"EUR", "USD"}}

AccountCreate(name, currency_code, is_active) ==
    [name |-> name, currency_code |-> currency_code, is_active |-> is_active]

AccountCreatePayloads ==
    {AccountCreate(name, currency_code, is_active) :
        name \in AccountNames, currency_code \in RawCurrencyCodes,
        is_active \in BOOLEAN}

AccountUpdates ==
    {[name |-> n] : n \in AccountNames}
    \cup {[currency_code |-> c] : c \in RawCurrencyCodes}
    \cup {[is_active |-> v] : v \in BOOLEAN}
    \cup {[currency_code |-> c, is_active |-> TRUE] : c \in {"USD", "EUR"}}

\* one budget in USD, owned by u1, and no account yet
BudgetInit ==
    /\ budgets = [b \in {"b1"} |->
                     [name |-> "n", base_currency_code |-> "USD", members |-> {"u1"}]]
    /\ accounts = [a \in {} |-> NULL]
    /\ categories = [c \in {} |-> NULL]
    /\ payees = [p \in {} |-> NULL]
    /\ tags = [t \in {} |-> NULL]
    /\ transactions = <<>>
    /\ transaction_lines = <<>>
    /\ transaction_line_tags = {}
    /\ ids = [txn |-> 0, line |-> 0, budget |-> 1, account |-> 0]
    /\ clock = 1
    /\ commits = 0
    /\ response = NoResponse
    /\ sessions = NoSessions

\* the end of a request, as in Respond
BudgetRespond(op, outcome) ==
    LET db == get_session(DB, outcome)
    IN /\ response = NoResponse
       /\ outcome.detail = OK => commits < MaxBudgetCommits
       /\ budgets' = db.budgets
       /\ accounts' = db.accounts
       /\ ids' = db.ids
       /\ commits' = IF outcome.detail = OK THEN commits + 1 ELSE commits
       /\ response' = [op |-> op, detail |-> outcome.detail]
       /\ UNCHANGED <<categories, payees, tags, transactions, transaction_lines,
                      transaction_line_tags, clock, sessions>>

\* POST /budgets
CreateBudget ==
    /\ ids.budget < Len(BudgetIds)
    /\ \E name \in BudgetNames, base_currency_code \in RawCurrencyCodes,
          owner_user_id \in Users :
          BudgetRespond("create_budget",
                        create_budget(DB, name, base_currency_code, owner_user_id))

\* PATCH /budgets/{budget_id}
UpdateBudget ==
    \E budget_id \in Range(BudgetIds), updates \in BudgetUpdates, user_id \in Users :
        BudgetRespond("update_budget", update_budget(DB, budget_id, updates, user_id))

\* POST /budgets/{budget_id}/accounts
CreateAccount ==
    /\ ids.account < Len(AccountIds)
    /\ \E budget_id \in Range(BudgetIds), payload \in AccountCreatePayloads,
          user_id \in Users :
          BudgetRespond("create_account", create_account(DB, budget_id, payload, user_id))

\* PATCH /budgets/{budget_id}/accounts/{account_id}
UpdateAccount ==
    \E budget_id \in Range(BudgetIds), account_id \in Range(AccountIds),
       updates \in AccountUpdates, user_id \in Users :
        BudgetRespond("update_account",
                      update_account(DB, budget_id, account_id, updates, user_id))

BudgetNext ==
    \/ CreateBudget
    \/ UpdateBudget
    \/ CreateAccount
    \/ UpdateAccount
    \/ ReceiveResponse

BudgetSpec == BudgetInit /\ [][BudgetNext]_vars

\* ========================================================================
\* Properties
\* ========================================================================
\* no request is in progress: the next request meets the database as it is
Idle == response = NoResponse

\* the ids of the stored lines of a transaction
StoredLineIds(t) == {l \in DOMAIN transaction_lines : transaction_lines[l].transaction_id = t}

\* a set of line rows (a function from line ids to rows) is a transfer
TransferShape(rows) ==
    \E x, y \in DOMAIN rows :
        /\ x # y
        /\ DOMAIN rows = {x, y}
        /\ rows[x].account_id # rows[y].account_id
        /\ rows[x].category_id = NULL
        /\ rows[y].category_id = NULL
        /\ rows[x].amount_minor + rows[y].amount_minor = 0

\* a set of line rows is a simple or split transaction
NonTransferShape(rows) ==
    /\ DOMAIN rows # {}
    /\ \A x, y \in DOMAIN rows : rows[x].account_id = rows[y].account_id

StoredRows(t) == [l \in StoredLineIds(t) |-> transaction_lines[l]]

\* the outcome of every request a client can send now
CreateOutcomes ==
    {[budget_id |-> r[1], payload |-> r[2],
      outcome |-> create_transaction(DB, r[1], r[2], now, new_ids)] :
        r \in CreateRequests, now \in Now, new_ids \in NewLineIds(DB, 1)}

UpdateOutcomes ==
    {[budget_id |-> r[1], transaction_id |-> r[2], payload |-> r[3],
      outcome |-> update_transaction(DB, r[1], r[2], r[3], clock)] :
        r \in UpdateRequests}

\* the request addresses a transaction of its budget
Addressed(budget_id, transaction_id) ==
    /\ transaction_id \in DOMAIN transactions
    /\ transactions[transaction_id].budget_id = budget_id

\* the request changed nothing: neither the session at the time the handler
\* raised, nor the database after the rollback
NothingWritten(outcome) == outcome.db = DB /\ get_session(DB, outcome) = DB

\* ------------------------------------------------------------------------
\* C1: every stored transaction's line set is a valid transfer (exactly two
\* lines on two distinct accounts, no category, amounts summing to 0) or a
\* valid non-transfer (at least one line, all lines on one account).
\* ------------------------------------------------------------------------
C1_LineSetsValid ==
    \A t \in DOMAIN transactions :
        TransferShape(StoredRows(t)) \/ NonTransferShape(StoredRows(t))

\* an update of a line of a transfer was accepted: the line has a payee now
\* and the transaction is still a transfer
C1_Witness ==
    /\ response = [op |-> "update_transaction", detail |-> OK]
    /\ \E t \in DOMAIN transactions :
          /\ TransferShape(StoredRows(t))
          /\ \E l \in StoredLineIds(t) : transaction_lines[l].payee_id # NULL

\* ------------------------------------------------------------------------
\* C2: no stored line has amount 0.  create_transaction answers a line of
\* amount 0 with "Amount must be non-zero."; update_transaction rejects a
\* patch that sends amount_minor as 0 or null, with that detail when the
\* patch sends nothing else; neither writes anything.
\* ------------------------------------------------------------------------
SendsZeroAmount(payload) ==
    /\ IsSet(payload, "lines")
    /\ ~IsNull(payload, "lines")
    /\ \E i \in DOMAIN payload.lines :
          /\ IsSet(payload.lines[i], "amount_minor")
          /\ \/ IsNull(payload.lines[i], "amount_minor")
             \/ payload.lines[i].amount_minor = 0

\* the payload patches the amount of one line of the transaction and nothing else
OnlyAmountPatch(transaction_id, payload) ==
    /\ payload.set = {"lines"}
    /\ payload.nulls = {}
    /\ Len(payload.lines) = 1
    /\ payload.lines[1].set = {"amount_minor"}
    /\ payload.lines[1].line_id \in StoredLineIds(transaction_id)

\* the details of the checks update_transaction makes before it looks at a
\* patch's amount
ChecksBeforeAmount ==
    {TransactionNotFound, PostedAtRequired, StatusRequired, InvalidStatus,
     ImportIdImmutable, DuplicateLineId, LineNotFound, AccountNotFound,
     CategoryNotFound, PayeeNotFound}

C2_NoZeroAmount ==
    /\ \A l \in DOMAIN transaction_lines : transaction_lines[l].amount_minor # 0
    /\ Idle =>
          /\ \A c \in CreateOutcomes :
                c.payload.line.amount_minor = 0 =>
                    c.outcome.detail = AmountZero /\ NothingWritten(c.outcome)
          /\ \A u \in UpdateOutcomes :
                /\ SendsZeroAmount(u.payload) =>
                      /\ u.outcome.detail \in {AmountZero} \cup ChecksBeforeAmount
                      /\ NothingWritten(u.outcome)
                      /\ (Addressed(u.budget_id, u.transaction_id)
                            /\ OnlyAmountPatch(u.transaction_id, u.payload))
                         => u.outcome.detail = AmountZero
                /\ u.outcome.detail = AmountZero => SendsZeroAmount(u.payload)

\* an update that sent a zero amount was rejected and the line is still there
C2_Witness ==
    /\ response = [op |-> "update_transaction", detail |-> AmountZero]
    /\ transaction_lines # <<>>

\* ------------------------------------------------------------------------
\* C3: every line's account, its category and payee when set, and every tag
\* linked to it exist and belong to the budget of the line's transaction;
\* create_transaction and update_transaction reject a request that refers to
\* an entity that does not exist or belongs to another budget, and write
\* nothing.
\* ------------------------------------------------------------------------
InBudget(table, id, budget_id) ==
    id \in DOMAIN table /\ table[id].budget_id = budget_id

\* the references a line draft or a line patch sends, as <<table, id>>
DraftReferences(line) ==
    {<<accounts, line.account_id>>}
    \cup (IF line.category_id # NULL THEN {<<categories, line.category_id>>} ELSE {})
    \cup (IF line.payee_id # NULL THEN {<<payees, line.payee_id>>} ELSE {})
    \cup {<<tags, line.tag_ids[i]>> : i \in DOMAIN line.tag_ids}

PatchReferences(patch) ==
    LET sent == patch.set \ patch.nulls
    IN (IF "account_id" \in sent THEN {<<accounts, patch.account_id>>} ELSE {})
       \cup (IF "category_id" \in sent THEN {<<categories, patch.category_id>>} ELSE {})
       \cup (IF "payee_id" \in sent THEN {<<payees, patch.payee_id>>} ELSE {})
       \cup (IF "tag_ids" \in sent
             THEN {<<tags, patch.tag_ids[i]>> : i \in DOMAIN patch.tag_ids} ELSE {})

PayloadReferences(payload) ==
    IF IsSet(payload, "lines") /\ ~IsNull(payload, "lines")
    THEN UNION {PatchReferences(payload.lines[i]) : i \in DOMAIN payload.lines}
    ELSE {}

Dangling(references, budget_id) ==
    \E ref \in references : ~InBudget(ref[1], ref[2], budget_id)

C3_ReferencesInBudget ==
    /\ \A l \in DOMAIN transaction_lines :
          LET line == transaction_lines[l]
              budget_id == transactions[line.transaction_id].budget_id
          IN /\ line.transaction_id \in DOMAIN transactions
             /\ InBudget(accounts, line.account_id, budget_id)
             /\ line.category_id # NULL => InBudget(categories, line.category_id, budget_id)
             /\ line.payee_id # NULL => InBudget(payees, line.payee_id, budget_id)
    /\ \A lt \in transaction_line_tags :
          /\ lt[1] \in DOMAIN transaction_lines
          /\ InBudget(tags, lt[2],
                      transactions[transaction_lines[lt[1]].transaction_id].budget_id)
    /\ Idle =>
          /\ \A c \in CreateOutcomes :
                Dangling(DraftReferences(c.payload.line), c.budget_id) =>
                    /\ c.outcome.detail \in {AmountZero, AccountNotFound, CategoryNotFound,
                                             PayeeNotFound, TagNotFound}
                    /\ NothingWritten(c.outcome)
          /\ \A u \in UpdateOutcomes :
                Dangling(PayloadReferences(u.payload), u.budget_id) =>
                    u.outcome.detail # OK /\ NothingWritten(u.outcome)

\* an update that referred to a category of another budget was rejected, in
\* a state whose lines carry a category, a payee and a tag
C3_Witness ==
    /\ response = [op |-> "update_transaction", detail |-> CategoryNotFound]
    /\ transaction_line_tags # {}
    /\ \E l \in DOMAIN transaction_lines :
          transaction_lines[l].category_id # NULL /\ transaction_lines[l].payee_id # NULL

\* ------------------------------------------------------------------------
\* C4: an update whose merged line set (the patched lines together with the
\* untouched ones) is neither a valid transfer nor a valid non-transfer is
\* rejected, with "Invalid transaction lines." when the request has no other
\* defect, and that detail is given for no other reason; nothing is written,
\* also when the request sends a valid header change.
\* ------------------------------------------------------------------------
MergedRows(transaction_id, payload) ==
    [l \in StoredLineIds(transaction_id) |->
        LET patches == {i \in DOMAIN payload.lines : payload.lines[i].line_id = l}
            row == transaction_lines[l]
        IN IF patches = {} THEN row
           ELSE LET patch == payload.lines[CHOOSE i \in patches : TRUE]
                    sent == patch.set \ patch.nulls
                IN [row EXCEPT
                      !.account_id = IF "account_id" \in sent THEN patch.account_id ELSE @,
                      !.category_id =
                          IF "category_id" \in sent THEN patch.category_id
                          ELSE IF "category_id" \in patch.nulls THEN NULL ELSE @,
                      !.amount_minor =
                          IF "amount_minor" \in sent THEN patch.amount_minor ELSE @]]

MergedInvalid(transaction_id, payload) ==
    /\ IsSet(payload, "lines")
    /\ ~IsNull(payload, "lines")
    /\ ~TransferShape(MergedRows(transaction_id, payload))
    /\ ~NonTransferShape(MergedRows(transaction_id, payload))

\* the request has no defect other than, possibly, the shape of its merged
\* lines: it patches distinct lines of the transaction with accounts and
\* categories of the budget and non-zero amounts, next to at most a note
NoOtherDefect(budget_id, transaction_id, payload) ==
    /\ payload.set \in {{"lines"}, {"notes", "lines"}}
    /\ payload.nulls = {}
    /\ payload.lines # <<>>
    /\ \A i, j \in DOMAIN payload.lines :
          payload.lines[i].line_id = payload.lines[j].line_id => i = j
    /\ \A i \in DOMAIN payload.lines :
          LET patch == payload.lines[i]
          IN /\ patch.line_id \in StoredLineIds(transaction_id)
             /\ patch.set # {}
             /\ patch.set \subseteq {"account_id", "category_id", "amount_minor"}
             /\ patch.nulls \subseteq {"category_id"}
             /\ ~Dangling(PatchReferences(patch), budget_id)
             /\ "amount_minor" \in patch.set => patch.amount_minor # 0

C4_InvalidLinesRejected ==
    Idle =>
        \A u \in UpdateOutcomes :
            Addressed(u.budget_id, u.transaction_id) =>
                /\ MergedInvalid(u.transaction_id, u.payload) =>
                      /\ u.outcome.detail # OK
                      /\ NothingWritten(u.outcome)
                      /\ NoOtherDefect(u.budget_id, u.transaction_id, u.payload)
                            => u.outcome.detail = InvalidTransactionLines
                /\ u.outcome.detail = InvalidTransactionLines =>
                      MergedInvalid(u.transaction_id, u.payload)

\* an update was rejected for its lines, and a request that sends a note
\* next to such lines is rejected for them too
C4_Witness ==
    /\ response = [op |-> "update_transaction", detail |-> InvalidTransactionLines]
    /\ \E u \in UpdateOutcomes :
          /\ IsSet(u.payload, "notes")
          /\ Sent(u.payload, "notes") # transactions[u.transaction_id].notes
          /\ u.outcome.detail = InvalidTransactionLines

\* ------------------------------------------------------------------------
\* C5: no update_transaction call, accepted or rejected, changes a stored
\* import_id.  A patch that sends a different import_id, or import_id as its
\* only field, is rejected with "Import id cannot be updated." (unless
\* posted_at or status is rejected first), that detail is given for no other
\* patch, and the fields an accepted patch writes never include import_id.
\* ------------------------------------------------------------------------
ChangesImportId(transaction_id, payload) ==
    /\ IsSet(payload, "import_id")
    /\ \/ Sent(payload, "import_id") # transactions[transaction_id].import_id
       \/ payload.set = {"import_id"}

C5_ImportIdImmutable ==
    Idle =>
        \A u \in UpdateOutcomes :
            LET after == get_session(DB, u.outcome)
            IN /\ DOMAIN after.transactions = DOMAIN transactions
               /\ \A t \in DOMAIN transactions :
                     after.transactions[t].import_id = transactions[t].import_id
               /\ "import_id" \notin DOMAIN TransactionUpdates(u.payload, clock)
               /\ Addressed(u.budget_id, u.transaction_id) =>
                     /\ ChangesImportId(u.transaction_id, u.payload) =>
                           /\ u.outcome.detail \in
                                 {ImportIdImmutable, PostedAtRequired, StatusRequired,
                                  InvalidStatus}
                           /\ u.payload.set \cap {"posted_at", "status"} = {}
                                 => u.outcome.detail = ImportIdImmutable
                           /\ NothingWritten(u.outcome)
                     /\ u.outcome.detail = ImportIdImmutable =>
                           ChangesImportId(u.transaction_id, u.payload)

\* a patch of an import_id was rejected, and a patch that repeats the stored
\* import_id next to a note is accepted
C5_Witness ==
    /\ response = [op |-> "update_transaction", detail |-> ImportIdImmutable]
    /\ \E u \in UpdateOutcomes :
          /\ Addressed(u.budget_id, u.transaction_id)
          /\ u.payload.set = {"import_id", "notes"}
          /\ transactions[u.transaction_id].import_id # NULL
          /\ u.outcome.detail = OK

\* ------------------------------------------------------------------------
\* C6 (as amended): update_transaction answers "No fields to update." only
\* to a patch that sends nothing to write: an empty patch, or one with no
\* posted_at, status or notes whose line patches all name only their
\* line_id.  Such a patch gets that detail unless an earlier check rejects
\* it.  The stored values are never compared: a patch that sends only notes
\* is accepted whatever the stored notes are.
\* ------------------------------------------------------------------------
NothingSent(payload) ==
    /\ payload.set \cap {"posted_at", "status", "notes"} = {}
    /\ (IsSet(payload, "lines") /\ ~IsNull(payload, "lines")) =>
          \A i \in DOMAIN payload.lines : payload.lines[i].set = {}

\* the payload is a list of patches of distinct lines of the transaction
\* that name only their line_id
OnlyLineIds(transaction_id, payload) ==
    /\ payload.set = {"lines"}
    /\ payload.nulls = {}
    /\ payload.lines # <<>>
    /\ \A i, j \in DOMAIN payload.lines :
          payload.lines[i].line_id = payload.lines[j].line_id => i = j
    /\ \A i \in DOMAIN payload.lines :
          /\ payload.lines[i].line_id \in StoredLineIds(transaction_id)
          /\ payload.lines[i].set = {}

C6_NoFieldsOnlyWhenNothingSent ==
    Idle =>
        \A u \in UpdateOutcomes :
            Addressed(u.budget_id, u.transaction_id) =>
                /\ u.outcome.detail = NoFieldsToUpdate => NothingSent(u.payload)
                /\ NothingSent(u.payload) =>
                      u.outcome.detail \in
                          {NoFieldsToUpdate, ImportIdImmutable, LinesCannotBeNull,
                           NoLineUpdates, DuplicateLineId, LineNotFound}
                /\ u.payload.set = {} => u.outcome.detail = NoFieldsToUpdate
                /\ OnlyLineIds(u.transaction_id, u.payload) =>
                      u.outcome.detail = NoFieldsToUpdate
                /\ (u.payload.set = {"notes"}) => u.outcome.detail = OK

\* a field of the patch differs from what is stored
StoredTagIds(l) == {tg \in DOMAIN tags : <<l, tg>> \in transaction_line_tags}

HeaderDiffers(transaction_id, payload) ==
    LET transaction == transactions[transaction_id]
    IN \/ /\ IsSet(payload, "posted_at")
          /\ \/ IsNull(payload, "posted_at")
             \/ _normalize_posted_at(<<payload.posted_at>>, clock) # transaction.posted_at
       \/ /\ IsSet(payload, "status")
          /\ \/ IsNull(payload, "status")
             \/ _normalize_status(<<payload.status>>) # transaction.status
       \/ IsSet(payload, "notes") /\ Sent(payload, "notes") # transaction.notes
       \/ IsSet(payload, "import_id") /\ Sent(payload, "import_id") # transaction.import_id

PatchDiffers(transaction_id, patch) ==
    \/ patch.line_id \notin StoredLineIds(transaction_id)
    \/ \E f \in patch.set \ {"tag_ids", "amount_minor"} :
          Sent(patch, f) # transaction_lines[patch.line_id][f]
    \/ /\ IsSet(patch, "amount_minor")
       /\ \/ IsNull(patch, "amount_minor")
          \/ patch.amount_minor # transaction_lines[patch.line_id].amount_minor
    \/ /\ IsSet(patch, "tag_ids")
       /\ StoredTagIds(patch.line_id) #
             (IF IsNull(patch, "tag_ids") THEN {} ELSE Range(patch.tag_ids))

Differs(transaction_id, payload) ==
    \/ HeaderDiffers(transaction_id, payload)
    \/ /\ IsSet(payload, "lines")
       /\ \/ IsNull(payload, "lines")
          \/ \E i \in DOMAIN payload.lines : PatchDiffers(transaction_id, payload.lines[i])

\* C6 as the specification states it: an update none of whose fields differs
\* from the stored transaction fails with "No fields to update."
C6_Original ==
    Idle =>
        \A u \in UpdateOutcomes :
            (Addressed(u.budget_id, u.transaction_id)
               /\ ~Differs(u.transaction_id, u.payload))
            => u.outcome.detail = NoFieldsToUpdate

\* an update was accepted, and a patch that sends a field without changing
\* anything is accepted now
C6_Witness ==
    /\ response = [op |-> "update_transaction", detail |-> OK]
    /\ \E u \in UpdateOutcomes :
          /\ Addressed(u.budget_id, u.transaction_id)
          /\ ~NothingSent(u.payload)
          /\ ~Differs(u.transaction_id, u.payload)
          /\ u.outcome.detail = OK
          /\ u.outcome.db = DB

\* ------------------------------------------------------------------------
\* C7: split_transaction on a transaction whose lines form a transfer is
\* rejected with "Transfer transactions cannot be split." and changes
\* nothing; the detail is given for no other transaction.
\* ------------------------------------------------------------------------
SplitOutcomes ==
    UNION {{[budget_id |-> r[1], transaction_id |-> r[2], payload |-> r[3],
             new_ids |-> new_ids,
             outcome |-> split_transaction(DB, r[1], r[2], r[3], new_ids)] :
               new_ids \in NewLineIds(DB, Len(r[3].lines))} :
             r \in SplitRequests}

C7_TransferNotSplit ==
    Idle =>
        \A s \in SplitOutcomes :
            Addressed(s.budget_id, s.transaction_id) =>
                /\ TransferShape(StoredRows(s.transaction_id)) =>
                      /\ s.outcome.detail = TransferCannotBeSplit
                      /\ NothingWritten(s.outcome)
                /\ s.outcome.detail = TransferCannotBeSplit =>
                      TransferShape(StoredRows(s.transaction_id))

\* a split of a transfer was rejected; the transfer is there with its tag links
C7_Witness ==
    /\ response = [op |-> "split_transaction", detail |-> TransferCannotBeSplit]
    /\ \E t \in DOMAIN transactions :
          /\ TransferShape(StoredRows(t))
          /\ \A l \in StoredLineIds(t) : StoredTagIds(l) # {}

\* ------------------------------------------------------------------------
\* C8: an accepted split_transaction replaces the whole line set: the
\* transaction then has exactly the submitted lines with their tags, under
\* new ids; no previous line and no tag link of one remains; the new lines
\* are on one account with non-zero amounts; the header and every other
\* transaction are as before.  The new total is not compared with the old.
\* ------------------------------------------------------------------------
\* the lines of a transaction in a database value, and the tags of one
LinesIn(db, t) ==
    {l \in DOMAIN db.transaction_lines : db.transaction_lines[l].transaction_id = t}

TagsIn(db, l) == {tg \in DOMAIN TagBudget : <<l, tg>> \in db.transaction_line_tags}

\* row l of db is the line the draft describes
RowIsDraft(db, l, t, draft) ==
    /\ db.transaction_lines[l] =
          [transaction_id |-> t, account_id |-> draft.account_id,
           category_id |-> draft.category_id, payee_id |-> draft.payee_id,
           amount_minor |-> draft.amount_minor, memo |-> draft.memo]
    /\ TagsIn(db, l) = Range(draft.tag_ids)

Total(db, line_ids) ==
    LET order == SetToSeq(line_ids)
    IN SumSeq([i \in DOMAIN order |-> db.transaction_lines[order[i]].amount_minor])

C8_SplitReplacesLines ==
    Idle =>
        \A s \in SplitOutcomes :
            s.outcome.detail = OK =>
                LET after == s.outcome.db
                    t == s.transaction_id
                    old == StoredLineIds(t)
                    new == LinesIn(after, t)
                IN /\ new = Range(s.new_ids)
                   /\ Cardinality(new) = Len(s.payload.lines)
                   /\ \A i \in DOMAIN s.payload.lines :
                         RowIsDraft(after, s.new_ids[i], t, s.payload.lines[i])
                   /\ old \cap DOMAIN after.transaction_lines = {}
                   /\ \A lt \in after.transaction_line_tags : lt[1] \notin old
                   /\ new # {}
                   /\ \A x, y \in new :
                         after.transaction_lines[x].account_id =
                             after.transaction_lines[y].account_id
                   /\ \A x \in new : after.transaction_lines[x].amount_minor # 0
                   /\ after.transactions = transactions
                   /\ \A l \in DOMAIN transaction_lines \ old :
                         /\ l \in DOMAIN after.transaction_lines
                         /\ after.transaction_lines[l] = transaction_lines[l]
                         /\ TagsIn(after, l) = StoredTagIds(l)

\* a split was accepted, and a split of a transaction into two lines of
\* another total is accepted
C8_Witness ==
    /\ response = [op |-> "split_transaction", detail |-> OK]
    /\ \E t \in DOMAIN transactions : Cardinality(StoredLineIds(t)) = 2
    /\ \E s \in SplitOutcomes :
          /\ s.outcome.detail = OK
          /\ Len(s.payload.lines) = 2
          /\ Total(s.outcome.db, LinesIn(s.outcome.db, s.transaction_id))
                # Total(DB, StoredLineIds(s.transaction_id))

\* ------------------------------------------------------------------------
\* C9 (as amended): an accepted create_transfer with from_account,
\* to_account and amount a creates a transaction whose two lines are exactly
\* (from_account, -|a|) and (to_account, +|a|): the sign of a is ignored and
\* from_account is always the one debited.
\* ------------------------------------------------------------------------
TransferOutcomes ==
    {[budget_id |-> r[1], payload |-> r[2], new_ids |-> new_ids,
      outcome |-> create_transfer(DB, r[1], r[2], now, new_ids)] :
        r \in TransferRequests, now \in Now, new_ids \in NewLineIds(DB, 2)}

\* the <<account, amount>> pairs of the lines of the transaction a request created
CreatedPostings(outcome) ==
    LET t == ids.txn + 1
    IN {<<outcome.db.transaction_lines[l].account_id,
          outcome.db.transaction_lines[l].amount_minor>> : l \in LinesIn(outcome.db, t)}

Magnitude(a) == IF a < 0 THEN 0 - a ELSE a

C9_TransferDebitsFromAccount ==
    Idle =>
        \A c \in TransferOutcomes :
            c.outcome.detail = OK =>
                /\ Cardinality(LinesIn(c.outcome.db, ids.txn + 1)) = 2
                /\ CreatedPostings(c.outcome) =
                      {<<c.payload.from_account_id, 0 - Magnitude(c.payload.amount_minor)>>,
                       <<c.payload.to_account_id, Magnitude(c.payload.amount_minor)>>}

\* C9 as the specification states it: the two lines are (from_account, -a)
\* and (to_account, +a)
C9_Original ==
    Idle =>
        \A c \in TransferOutcomes :
            c.outcome.detail = OK =>
                /\ Cardinality(LinesIn(c.outcome.db, ids.txn + 1)) = 2
                /\ CreatedPostings(c.outcome) =
                      {<<c.payload.from_account_id, 0 - c.payload.amount_minor>>,
                       <<c.payload.to_account_id, c.payload.amount_minor>>}

\* the first request, a transfer from a2 with a negative amount, was
\* accepted: a2 is debited
C9_Witness ==
    /\ response = [op |-> "create_transfer", detail |-> OK]
    /\ commits = 1
    /\ \E l \in DOMAIN transaction_lines :
          /\ transaction_lines[l].account_id = "a2"
          /\ transaction_lines[l].amount_minor < 0

\* ------------------------------------------------------------------------
\* C10: the transaction of an accepted create_transfer is a valid transfer:
\* exactly two lines, one on each of the two distinct accounts given, no
\* category and no payee, the memo and the tags of the request on both, and
\* amounts that sum to 0.
\* ------------------------------------------------------------------------
C10_TransferIsValid ==
    Idle =>
        \A c \in TransferOutcomes :
            c.outcome.detail = OK =>
                LET after == c.outcome.db
                    t == ids.txn + 1
                    new == LinesIn(after, t)
                    rows == [l \in new |-> after.transaction_lines[l]]
                IN /\ t \in DOMAIN after.transactions
                   /\ after.transactions[t].budget_id = c.budget_id
                   /\ TransferShape(rows)
                   /\ c.payload.from_account_id # c.payload.to_account_id
                   /\ {rows[l].account_id : l \in new} =
                         {c.payload.from_account_id, c.payload.to_account_id}
                   /\ \A l \in new :
                         /\ rows[l].category_id = NULL
                         /\ rows[l].payee_id = NULL
                         /\ rows[l].memo = c.payload.memo
                         /\ TagsIn(after, l) = Range(c.payload.tag_ids)
                   /\ Total(after, new) = 0

\* a transfer with a memo and two tags was accepted and both lines carry them
C10_Witness ==
    /\ response = [op |-> "create_transfer", detail |-> OK]
    /\ \E t \in DOMAIN transactions :
          /\ TransferShape(StoredRows(t))
          /\ \A l \in StoredLineIds(t) :
                /\ transaction_lines[l].memo = "m"
                /\ StoredTagIds(l) = {"t1", "t2"}

\* ------------------------------------------------------------------------
\* C11: create_transfer is rejected, and creates no transaction and no line,
\* when from_account equals to_account ('Transfer accounts must be
\* distinct.'), when the amount is 0 ('Amount must be non-zero.'), or when a
\* payee is supplied ('Payee not allowed for transfers.').
\* ------------------------------------------------------------------------
\* the three defects of a transfer request the claim names
SameAccounts(payload) == payload.from_account_id = payload.to_account_id

ZeroTransfer(payload) == payload.amount_minor = 0

PayeeSupplied(payload) == payload.payee_id # NULL

C11_TransferRejected ==
    Idle =>
        \A c \in TransferOutcomes :
            LET p == c.payload
                detail == c.outcome.detail
            IN /\ (SameAccounts(p) \/ ZeroTransfer(p) \/ PayeeSupplied(p)) =>
                     /\ detail \in {"Transfer accounts must be distinct.",
                                    "Amount must be non-zero.",
                                    "Payee not allowed for transfers."}
                     /\ NothingWritten(c.outcome)
                     /\ DOMAIN c.outcome.db.transactions = DOMAIN transactions
                     /\ DOMAIN c.outcome.db.transaction_lines = DOMAIN transaction_lines
               /\ (SameAccounts(p) /\ ~ZeroTransfer(p) /\ ~PayeeSupplied(p)) =>
                     detail = "Transfer accounts must be distinct."
               /\ (ZeroTransfer(p) /\ ~SameAccounts(p) /\ ~PayeeSupplied(p)) =>
                     detail = "Amount must be non-zero."
               /\ (PayeeSupplied(p) /\ ~SameAccounts(p) /\ ~ZeroTransfer(p)) =>
                     detail = "Payee not allowed for transfers."

\* a transfer with a payee was rejected while the ledger holds a transaction:
\* the rows that were there are still there
C11_Witness ==
    /\ response = [op |-> "create_transfer", detail |-> PayeeNotAllowedForTransfers]
    /\ transactions # <<>>
    /\ transaction_lines # <<>>

\* ------------------------------------------------------------------------
\* C12: a bulk import in which the same import_id appears at two or more
\* indices is rejected as a whole: the error list has one 'Duplicate
\* import_id.' entry for every index that shares a repeated id (the first
\* occurrence included), and no transaction of the batch is created, the
\* drafts whose import_id is not repeated included.
\* ------------------------------------------------------------------------
BulkOutcomes ==
    {[budget_id |-> r[1], payload |-> r[2],
      outcome |-> bulk_import_transactions(DB, r[1], r[2], now)] :
        r \in BulkRequests, now \in Now}

\* the positions (counted from 0) whose import_id appears at another position
RepeatedPositions(drafts) ==
    {i - 1 : i \in {k \in 1..Len(drafts) :
                       \E j \in 1..Len(drafts) :
                           j # k /\ drafts[j].import_id = drafts[k].import_id}}

C12_DuplicateBatchRejected ==
    Idle =>
        \A c \in BulkOutcomes :
            LET drafts == c.payload.transactions
                errors == c.outcome.errors
            IN RepeatedPositions(drafts) # {} =>
                  /\ c.outcome.detail = "Duplicate import_id."
                  /\ c.outcome.status_code = 400
                  /\ Len(errors) = Cardinality(RepeatedPositions(drafts))
                  /\ {errors[k].index : k \in DOMAIN errors} = RepeatedPositions(drafts)
                  /\ \A k \in DOMAIN errors : errors[k].detail = "Duplicate import_id."
                  /\ NothingWritten(c.outcome)

\* a batch of three whose first and last drafts share an import_id was
\* rejected: indexes 0 and 2 are reported and the ledger is still empty
C12_Witness ==
    /\ response.op = "bulk_import_transactions"
    /\ response.detail = DuplicateImportId
    /\ response.errors = <<[index |-> 0, detail |-> DuplicateImportId],
                           [index |-> 2, detail |-> DuplicateImportId]>>
    /\ transactions = <<>>

\* ------------------------------------------------------------------------
\* C13: bulk import is idempotent per import_id.  In an accepted batch every
\* draft whose import_id a transaction of the budget already carries is
\* skipped and counted in existing_count, every other draft is created and
\* counted in created_count; importing the same batch again returns
\* created_count = 0 and existing_count = the size of the batch, and adds no
\* row.
\* ------------------------------------------------------------------------
\* the transactions of a budget that carry an import_id, in a database
Carrying(db, budget_id, import_id) ==
    {t \in DOMAIN db.transactions :
        /\ db.transactions[t].budget_id = budget_id
        /\ db.transactions[t].import_id = import_id}

\* the positions of the drafts whose import_id is already in the budget
Known(budget_id, drafts) ==
    {i \in 1..Len(drafts) : Carrying(DB, budget_id, drafts[i].import_id) # {}}

C13_BulkImportIdempotent ==
    Idle =>
        \A c \in BulkOutcomes :
            c.outcome.detail = OK =>
                LET drafts == c.payload.transactions
                    known == Known(c.budget_id, drafts)
                    after == get_session(DB, c.outcome)
                IN /\ c.outcome.existing_count = Cardinality(known)
                   /\ c.outcome.created_count = Len(drafts) - Cardinality(known)
                   /\ DOMAIN transactions \subseteq DOMAIN after.transactions
                   /\ Cardinality(DOMAIN after.transactions) =
                         Cardinality(DOMAIN transactions) + c.outcome.created_count
                   /\ \A i \in known :
                         Carrying(after, c.budget_id, drafts[i].import_id) =
                            Carrying(DB, c.budget_id, drafts[i].import_id)
                   /\ \A i \in 1..Len(drafts) :
                         Cardinality(Carrying(after, c.budget_id, drafts[i].import_id)) = 1
                   /\ \A now \in 1..MaxClock :
                         LET again ==
                                 bulk_import_transactions(after, c.budget_id, c.payload, now)
                         IN /\ again.detail = OK
                            /\ again.created_count = 0
                            /\ again.existing_count = Len(drafts)
                            /\ get_session(after, again) = after

\* a batch of two was imported twice: the second import created nothing
C13_Witness ==
    /\ response.op = "bulk_import_transactions"
    /\ response.detail = OK
    /\ response.created_count = 0
    /\ response.existing_count = 2
    /\ Cardinality(DOMAIN transactions) = 2
    /\ commits = 2

\* ------------------------------------------------------------------------
\* C14: an accepted bulk import responds 201 when every draft was created
\* (existing_count = 0) and 200 when at least one draft was skipped
\* (existing_count > 0), whether or not other drafts of the batch were
\* created.
\* ------------------------------------------------------------------------
C14_StatusByExistingCount ==
    Idle =>
        \A c \in BulkOutcomes :
            c.outcome.detail = OK =>
                /\ c.outcome.created_count + c.outcome.existing_count =
                      Len(c.payload.transactions)
                /\ c.outcome.existing_count = 0 => c.outcome.status_code = 201
                /\ c.outcome.existing_count > 0 => c.outcome.status_code = 200

\* C14 as the specification states it: 201 if created_count > 0, 200 if
\* created_count = 0 and existing_count > 0
C14_Original ==
    Idle =>
        \A c \in BulkOutcomes :
            c.outcome.detail = OK =>
                /\ c.outcome.created_count > 0 => c.outcome.status_code = 201
                /\ (c.outcome.created_count = 0 /\ c.outcome.existing_count > 0) =>
                      c.outcome.status_code = 200

\* a batch with one known and one new import_id was accepted: one created,
\* one existing, status 200
C14_Witness ==
    /\ response.op = "bulk_import_transactions"
    /\ response.detail = OK
    /\ response.created_count = 1
    /\ response.existing_count = 1
    /\ response.status_code = 200

\* ------------------------------------------------------------------------
\* C15: whatever sequence of create_transaction and bulk-import calls is
\* made, no two transactions of the same budget carry the same non-null
\* import_id; a create_transaction call repeating an import_id already used
\* in the budget does not add a second transaction.
\* ------------------------------------------------------------------------
\* the request repeats an import_id of its budget
RepeatsImportId(budget_id, payload) ==
    /\ payload.import_id # NULL
    /\ \E t \in DOMAIN transactions :
          /\ transactions[t].budget_id = budget_id
          /\ transactions[t].import_id = payload.import_id

C15_ImportIdUnique ==
    /\ \A t, u \in DOMAIN transactions :
          (/\ t # u
           /\ transactions[t].budget_id = transactions[u].budget_id
           /\ transactions[t].import_id # NULL) =>
              transactions[t].import_id # transactions[u].import_id
    /\ Idle =>
          \A c \in CreateOutcomes :
              RepeatsImportId(c.budget_id, c.payload) =>
                  /\ c.outcome.detail # OK
                  /\ get_session(DB, c.outcome) = DB

\* a create_transaction repeating import_id i1 of budget b1 failed on the
\* unique constraint; the budget still has one transaction with it
C15_Witness ==
    /\ response = [op |-> "create_transaction", detail |-> IntegrityError]
    /\ Cardinality({t \in DOMAIN transactions :
                       /\ transactions[t].budget_id = "b1"
                       /\ transactions[t].import_id = "i1"}) = 1

\* ------------------------------------------------------------------------
\* C16: when two concurrent requests (bulk imports or create_transaction
\* calls) carry the same import_id for the same budget, in every
\* interleaving at most one transaction with that import_id is committed,
\* and the losing request ends as a conflict with none of its own writes
\* committed.
\* ------------------------------------------------------------------------
\* the committed transactions of a budget with an import_id
Committed(budget_id, import_id) ==
    {t \in DOMAIN transactions :
        /\ transactions[t].budget_id = budget_id
        /\ transactions[t].import_id = import_id}

\* the import_ids the requests in progress carry
RacedImportIds == UNION {sessions[s].import_ids : s \in DOMAIN sessions}

AtMostOneCommitted ==
    \A b \in Budgets, i \in RacedImportIds : Cardinality(Committed(b, i)) <= 1

\* the request has ended and the unique constraint refused its insert
Lost(s) == sessions[s].pc = "done" /\ sessions[s].cause = "unique"

NoneOfItsWritesCommitted(s) ==
    /\ sessions[s].written \cap DOMAIN transactions = {}
    /\ sessions[s].written_lines \cap DOMAIN transaction_lines = {}
    /\ \A lt \in transaction_line_tags : lt[1] \notin sessions[s].written_lines

\* C16 as the specification states it: the losing request ends as a
\* conflict (409), not as an unhandled error
C16_Original ==
    /\ AtMostOneCommitted
    /\ \A s \in DOMAIN sessions :
          Lost(s) =>
              /\ sessions[s].status_code = 409
              /\ NoneOfItsWritesCommitted(s)

\* what holds of the race: at most one transaction per import_id is
\* committed, and the request the unique constraint refused fails (409 for a
\* bulk import, 500 for create_transaction) and none of its writes is
\* committed
RaceLeavesOneRow ==
    /\ AtMostOneCommitted
    /\ \A s \in DOMAIN sessions :
          Lost(s) =>
              /\ sessions[s].detail # OK
              /\ sessions[s].status_code =
                    (IF sessions[s].op = "create_transaction" THEN 500 ELSE 409)
              /\ NoneOfItsWritesCommitted(s)
              /\ \E i \in sessions[s].import_ids :
                    Cardinality(Committed(sessions[s].budget_id, i)) = 1

\* two create_transaction calls with import_id i1 raced in budget b1: one
\* row is committed and the other call ended with the unhandled
\* IntegrityError
C16_Witness ==
    /\ DOMAIN sessions = SessionIds
    /\ \A s \in SessionIds :
          /\ sessions[s].op = "create_transaction"
          /\ sessions[s].pc = "done"
          /\ sessions[s].import_ids = {"i1"}
          /\ sessions[s].budget_id = "b1"
    /\ \E s \in SessionIds :
          /\ Lost(s)
          /\ sessions[s].detail = IntegrityError
          /\ sessions[s].status_code = 500
    /\ Cardinality(Committed("b1", "i1")) = 1

\* ------------------------------------------------------------------------
\* C17: every rejected ledger operation leaves the store exactly as it was
\* before the call; a transaction header is never committed without its
\* lines; a bulk import in which a later draft fails validation commits none
\* of the preceding drafts.
\* ------------------------------------------------------------------------
DeleteOutcomes ==
    {[budget_id |-> b, transaction_id |-> t, outcome |-> delete_transaction(DB, b, t)] :
        b \in Budgets, t \in TxnIds}

\* the outcome of every ledger request a client can send now
LedgerOutcomes ==
    {c.outcome : c \in CreateOutcomes} \cup {c.outcome : c \in TransferOutcomes}
    \cup {c.outcome : c \in UpdateOutcomes} \cup {c.outcome : c \in SplitOutcomes}
    \cup {c.outcome : c \in DeleteOutcomes}
    \cup {[detail |-> c.outcome.detail, db |-> c.outcome.db] : c \in BulkOutcomes}

\* the store after the request whose handler ended with the outcome
StoreAfter(outcome) == get_session(DB, outcome)

\* the session had written rows by the time the handler raised
WroteBeforeRaising(outcome) ==
    /\ outcome.detail # OK
    /\ DOMAIN outcome.db.transactions # DOMAIN transactions

C17_RejectedLeavesStore ==
    /\ \A t \in DOMAIN transactions :
          \E l \in DOMAIN transaction_lines : transaction_lines[l].transaction_id = t
    /\ Idle =>
          /\ \A outcome \in LedgerOutcomes :
                /\ outcome.detail # OK => StoreAfter(outcome) = DB
                /\ outcome.detail = OK =>
                      \A t \in DOMAIN StoreAfter(outcome).transactions :
                          LinesIn(StoreAfter(outcome), t) # {}
          /\ \A c \in BulkOutcomes :
                WroteBeforeRaising(c.outcome) =>
                    /\ StoreAfter(c.outcome).transactions = transactions
                    /\ StoreAfter(c.outcome).transaction_lines = transaction_lines
                    /\ StoreAfter(c.outcome).transaction_line_tags = transaction_line_tags

\* a bulk import was rejected for a zero amount, in a state where a batch
\* meets that rejection after its session created an earlier draft; the
\* ledger holds what it held: one transaction
C17_Witness ==
    /\ response.op = "bulk_import_transactions"
    /\ response.detail = AmountZero
    /\ Cardinality(DOMAIN transactions) = 1
    /\ \E c \in BulkOutcomes :
          /\ WroteBeforeRaising(c.outcome)
          /\ c.outcome.detail = AmountZero

\* ------------------------------------------------------------------------
\* C18: delete_transaction on a transaction of the addressed budget removes
\* that transaction, all of its lines and those lines' tag links, and changes
\* no other transaction; deleting an id that does not exist or is of another
\* budget fails with 'Transaction not found.' and removes nothing.
\* ------------------------------------------------------------------------
C18_DeleteFrame ==
    Idle =>
        \A c \in DeleteOutcomes :
            LET t == c.transaction_id
                after == get_session(DB, c.outcome)
                own == StoredLineIds(t)
            IN IF Addressed(c.budget_id, t)
               THEN /\ c.outcome.detail = OK
                    /\ DOMAIN after.transactions = DOMAIN transactions \ {t}
                    /\ \A u \in DOMAIN after.transactions :
                          after.transactions[u] = transactions[u]
                    /\ DOMAIN after.transaction_lines = DOMAIN transaction_lines \ own
                    /\ \A l \in DOMAIN after.transaction_lines :
                          after.transaction_lines[l] = transaction_lines[l]
                    /\ after.transaction_line_tags =
                          {lt \in transaction_line_tags : lt[1] \notin own}
                    /\ after.accounts = accounts
                    /\ after.categories = categories
                    /\ after.payees = payees
                    /\ after.tags = tags
               ELSE /\ c.outcome.detail = "Transaction not found."
                    /\ after = DB
                    /\ c.outcome.db = DB

\* a ledger of two transactions lost one to delete_transaction: the other
\* one and its line are still there
C18_Witness ==
    /\ response = [op |-> "delete_transaction", detail |-> OK]
    /\ Cardinality(DOMAIN transactions) = 1
    /\ \A t \in DOMAIN transactions : StoredLineIds(t) # {}
    /\ ids.txn = 2

\* ------------------------------------------------------------------------
\* C19: list_transactions returns exactly the transactions of the addressed
\* budget, each once, ordered by posted_at descending, then created_at
\* descending, then id descending; the order is total and deterministic (the
\* same ledger state always yields the same sequence).
\* ------------------------------------------------------------------------
\* the transactions of a budget
OfBudget(budget_id) ==
    {t \in DOMAIN transactions : transactions[t].budget_id = budget_id}

\* listed transaction x stands rightly before listed transaction y
Precedes(x, y) ==
    IF x.posted_at # y.posted_at THEN x.posted_at > y.posted_at
    ELSE IF x.created_at # y.created_at THEN x.created_at > y.created_at
    ELSE x.id > y.id

C19_ListOrdered ==
    /\ \A b \in Budgets :
          LET listed == list_transactions(DB, b)
          IN /\ {listed[i].id : i \in DOMAIN listed} = OfBudget(b)
             /\ Len(listed) = Cardinality(OfBudget(b))
             /\ \A i \in DOMAIN listed :
                   /\ listed[i].budget_id = b
                   /\ listed[i].posted_at = transactions[listed[i].id].posted_at
                   /\ listed[i].created_at = transactions[listed[i].id].created_at
                   /\ listed[i].lines # <<>>
             /\ \A i, j \in DOMAIN listed : i < j => Precedes(listed[i], listed[j])
    /\ response.op = "list_transactions" =>
          response.body = list_transactions(DB, response.budget_id)

\* three transactions of one budget with the same posted_at were listed: the
\* one created last comes first although its id is the smallest, and the two
\* created together follow by descending id
C19_Witness ==
    /\ response.op = "list_transactions"
    /\ Len(response.body) = 3
    /\ response.body[1].posted_at = response.body[3].posted_at
    /\ response.body[1].created_at > response.body[2].created_at
    /\ response.body[2].created_at = response.body[3].created_at
    /\ response.body[1].id < response.body[3].id
    /\ response.body[2].id > response.body[3].id

\* ------------------------------------------------------------------------
\* C20: round trip.  For every accepted create_transaction request,
\* get_transaction of the returned id returns the same header and line
\* fields, the lines in ascending line-id order, identical on every fetch,
\* and each line's tag set equal as a set to the deduplicated tag ids that
\* were submitted.
\* ------------------------------------------------------------------------
\* the status a submitted status is stored as
SubmittedStatus(status) ==
    IF status = <<>> THEN "posted"
    ELSE IF status = <<RawVoid>> THEN "void"
    ELSE IF status = <<RawPosted>> THEN "posted"
    ELSE "none"

\* the instants a submitted posted_at can be stored as
SubmittedPostedAt(posted_at) ==
    IF posted_at = <<>> THEN Now
    ELSE IF posted_at[1].naive THEN {posted_at[1].t}
    ELSE {posted_at[1].t - posted_at[1].off}

\* the ids of a sequence of lines ascend
Ascending(lines) == \A i, j \in DOMAIN lines : i < j => lines[i].id < lines[j].id

C20_CreateGetRoundTrip ==
    /\ Idle =>
          \A c \in CreateOutcomes :
              c.outcome.detail = OK =>
                  LET after == get_session(DB, c.outcome)
                      id == ids.txn + 1
                      fetched == get_transaction(after, c.budget_id, id)
                      got == fetched.body
                      sent == c.payload
                  IN /\ fetched.detail = OK
                     /\ got.id = id
                     /\ got.budget_id = c.budget_id
                     /\ got.status = SubmittedStatus(sent.status)
                     /\ got.posted_at \in SubmittedPostedAt(sent.posted_at)
                     /\ got.notes = sent.notes
                     /\ got.import_id = sent.import_id
                     /\ Len(got.lines) = 1
                     /\ got.lines[1].account_id = sent.line.account_id
                     /\ got.lines[1].category_id = sent.line.category_id
                     /\ got.lines[1].payee_id = sent.line.payee_id
                     /\ got.lines[1].amount_minor = sent.line.amount_minor
                     /\ got.lines[1].memo = sent.line.memo
                     /\ Range(got.lines[1].tag_ids) = Range(sent.line.tag_ids)
                     /\ Len(got.lines[1].tag_ids) = Cardinality(Range(sent.line.tag_ids))
                     /\ get_transaction(after, c.budget_id, id) = fetched
    /\ \A t \in DOMAIN transactions :
          LET lines == get_transaction(DB, transactions[t].budget_id, t).body.lines
          IN /\ Ascending(lines)
             /\ {lines[i].id : i \in DOMAIN lines} = StoredLineIds(t)
    /\ (response.op = "get_transaction" /\ response.detail = OK) =>
          response.body =
              get_transaction(DB, response.budget_id, response.transaction_id).body

\* a transaction created with the tag ids t2, t1, t2 was fetched: its one
\* line carries the tags t1 and t2, once each
C20_Witness ==
    /\ response.op = "get_transaction"
    /\ response.detail = OK
    /\ Len(response.body.lines) = 1
    /\ response.body.lines[1].tag_ids = <<"t1", "t2">>
    /\ commits = 1

\* ------------------------------------------------------------------------
\* C21: tag validation deduplicates the submitted tag ids and requires every
\* one of them to be a tag of the budget: a list with repeated known tags is
\* accepted and stored once per tag, and a single unknown or foreign-budget
\* tag id anywhere in the list (on any patched line of an update) fails the
\* whole operation with 'Tag not found.' and stores nothing.
\* ------------------------------------------------------------------------
\* a tag id of the list is not a tag of the budget
ForeignTag(tag_ids, budget_id) ==
    \E i \in DOMAIN tag_ids : ~InBudget(tags, tag_ids[i], budget_id)

\* the line draft has no defect but, possibly, its tags
SoundButTags(line, budget_id) ==
    /\ line.amount_minor # 0
    /\ InBudget(accounts, line.account_id, budget_id)
    /\ line.category_id # NULL => InBudget(categories, line.category_id, budget_id)
    /\ line.payee_id # NULL => InBudget(payees, line.payee_id, budget_id)

\* the patches of the payload that send a tag list
TagPatches(payload) ==
    IF IsSet(payload, "lines") /\ ~IsNull(payload, "lines")
    THEN {i \in DOMAIN payload.lines :
             /\ IsSet(payload.lines[i], "tag_ids")
             /\ ~IsNull(payload.lines[i], "tag_ids")}
    ELSE {}

\* the payload patches the tags of distinct lines of the transaction and
\* nothing else
OnlyTagPatches(transaction_id, payload) ==
    /\ payload.set = {"lines"}
    /\ payload.nulls = {}
    /\ payload.lines # <<>>
    /\ \A i, j \in DOMAIN payload.lines :
          payload.lines[i].line_id = payload.lines[j].line_id => i = j
    /\ \A i \in DOMAIN payload.lines :
          /\ payload.lines[i].line_id \in StoredLineIds(transaction_id)
          /\ payload.lines[i].set = {"tag_ids"}
          /\ payload.lines[i].nulls = {}

C21_TagsDedupedAndChecked ==
    Idle =>
        /\ \A c \in CreateOutcomes :
              LET line == c.payload.line
                  foreign == ForeignTag(line.tag_ids, c.budget_id)
                  header_ok == c.payload.status \in {<<>>, <<RawVoid>>, <<RawPosted>>}
              IN /\ foreign => (c.outcome.detail # OK /\ NothingWritten(c.outcome))
                 /\ (foreign /\ SoundButTags(line, c.budget_id)) =>
                       c.outcome.detail = "Tag not found."
                 /\ c.outcome.detail = "Tag not found." => foreign
                 /\ (~foreign /\ SoundButTags(line, c.budget_id) /\ header_ok
                     /\ ~RepeatsImportId(c.budget_id, c.payload)) =>
                       /\ c.outcome.detail = OK
                       /\ \A l \in LinesIn(c.outcome.db, ids.txn + 1) :
                             TagsIn(c.outcome.db, l) = Range(line.tag_ids)
        /\ \A u \in UpdateOutcomes :
              LET patches == TagPatches(u.payload)
                  foreign == \E i \in patches :
                                 ForeignTag(u.payload.lines[i].tag_ids, u.budget_id)
              IN /\ foreign => (u.outcome.detail # OK /\ NothingWritten(u.outcome))
                 /\ u.outcome.detail = "Tag not found." => foreign
                 /\ (Addressed(u.budget_id, u.transaction_id)
                     /\ OnlyTagPatches(u.transaction_id, u.payload)) =>
                       IF foreign
                       THEN u.outcome.detail = "Tag not found."
                       ELSE /\ u.outcome.detail = OK
                            /\ \A i \in DOMAIN u.payload.lines :
                                  TagsIn(u.outcome.db, u.payload.lines[i].line_id) =
                                     Range(u.payload.lines[i].tag_ids)

\* an update was rejected with 'Tag not found.' while a line created with
\* the tag ids t2, t1, t2 carries t1 and t2, once each
C21_Witness ==
    /\ response = [op |-> "update_transaction", detail |-> TagNotFound]
    /\ \E l \in DOMAIN transaction_lines : StoredTagIds(l) = {"t1", "t2"}
    /\ Cardinality(transaction_line_tags) = 2

\* ------------------------------------------------------------------------
\* C22: update_transaction rejects a request that names the same line_id
\* twice ('Duplicate line_id.') and a request that names a line_id that is
\* not a line of the addressed transaction, a line of another transaction of
\* the same budget included ('Line not found.'); in both cases no line of
\* any transaction is changed.
\* ------------------------------------------------------------------------
\* the line patches the payload sends
SentLines(payload) ==
    IF IsSet(payload, "lines") /\ ~IsNull(payload, "lines") THEN payload.lines ELSE <<>>

\* patch i names the line_id of an earlier patch
NamedBefore(lines, i) == \E j \in 1..(i - 1) : lines[j].line_id = lines[i].line_id

\* patch i names a line that is not a line of the transaction
NotItsLine(transaction_id, lines, i) ==
    lines[i].line_id \notin StoredLineIds(transaction_id)

\* patch i names a line of another transaction of the budget
LineOfSibling(budget_id, transaction_id, lines, i) ==
    \E t \in DOMAIN transactions :
        /\ t # transaction_id
        /\ transactions[t].budget_id = budget_id
        /\ lines[i].line_id \in StoredLineIds(t)

\* the values the patch sends are acceptable on their own
PatchSound(budget_id, patch) ==
    /\ IsSet(patch, "account_id") =>
          (~IsNull(patch, "account_id") /\ InBudget(accounts, patch.account_id, budget_id))
    /\ (IsSet(patch, "category_id") /\ ~IsNull(patch, "category_id")) =>
          InBudget(categories, patch.category_id, budget_id)
    /\ (IsSet(patch, "payee_id") /\ ~IsNull(patch, "payee_id")) =>
          InBudget(payees, patch.payee_id, budget_id)
    /\ IsSet(patch, "amount_minor") =>
          (~IsNull(patch, "amount_minor") /\ patch.amount_minor # 0)

\* the header part of the payload is absent or a note
HeaderHarmless(payload) == payload.set \subseteq {"lines", "notes"} /\ payload.nulls = {}

C22_LineIdsChecked ==
    Idle =>
        \A u \in UpdateOutcomes :
            LET lines == SentLines(u.payload)
                repeated == {i \in DOMAIN lines : NamedBefore(lines, i)}
                strange == {i \in DOMAIN lines : NotItsLine(u.transaction_id, lines, i)}
                offences == repeated \cup strange
            IN /\ offences # {} =>
                     /\ u.outcome.detail # OK
                     /\ u.outcome.db.transaction_lines = transaction_lines
                     /\ u.outcome.db.transaction_line_tags = transaction_line_tags
                     /\ NothingWritten(u.outcome)
               /\ u.outcome.detail = "Duplicate line_id." => repeated # {}
               /\ u.outcome.detail = "Line not found." => strange # {}
               /\ (/\ offences # {}
                   /\ Addressed(u.budget_id, u.transaction_id)
                   /\ HeaderHarmless(u.payload)) =>
                     LET first == CHOOSE i \in offences : \A j \in offences : i <= j
                     IN (\A j \in 1..(first - 1) : PatchSound(u.budget_id, lines[j])) =>
                           u.outcome.detail =
                              IF first \in repeated THEN "Duplicate line_id."
                              ELSE "Line not found."

\* an update of one transaction that names a line of another transaction of
\* the same budget was answered with 'Line not found.', and in the same store
\* a request that names a line twice is answered with 'Duplicate line_id.'
C22_Witness ==
    /\ response = [op |-> "update_transaction", detail |-> LineNotFound]
    /\ \E u \in UpdateOutcomes :
          /\ Addressed(u.budget_id, u.transaction_id)
          /\ u.outcome.detail = LineNotFound
          /\ \E i \in DOMAIN SentLines(u.payload) :
                LineOfSibling(u.budget_id, u.transaction_id, SentLines(u.payload), i)
    /\ \E u \in UpdateOutcomes :
          /\ Addressed(u.budget_id, u.transaction_id)
          /\ u.outcome.detail = DuplicateLineId

\* ------------------------------------------------------------------------
\* C23: the stored status of every transaction is one of pending, posted,
\* reconciled, void: create and update accept a status string
\* case-insensitively and trimmed, reject any other string with 'Invalid
\* status.', create defaults an absent status to posted, and update rejects
\* an explicit null status.
\* ------------------------------------------------------------------------
StatusWords ==
    [pending |-> <<"p", "e", "n", "d", "i", "n", "g">>,
     posted |-> <<"p", "o", "s", "t", "e", "d">>,
     reconciled |-> <<"r", "e", "c", "o", "n", "c", "i", "l", "e", "d">>,
     void |-> <<"v", "o", "i", "d">>]

Capitals ==
    [p |-> "P", e |-> "E", n |-> "N", d |-> "D", i |-> "I", g |-> "G", o |-> "O",
     s |-> "S", t |-> "T", r |-> "R", c |-> "C", l |-> "L", v |-> "V"]

\* raw is the word in any mix of cases between two runs of blanks
Spells(raw, word) ==
    \E before \in 0..Len(raw) :
        /\ before + Len(word) <= Len(raw)
        /\ \A i \in 1..before : raw[i] = " "
        /\ \A i \in (before + Len(word) + 1)..Len(raw) : raw[i] = " "
        /\ \A i \in 1..Len(word) :
              raw[before + i] \in {word[i], Capitals[word[i]]}

\* the statuses the raw string spells
Readings(raw) == {k \in DOMAIN StatusWords : Spells(raw, StatusWords[k])}

C23_StatusNormalized ==
    /\ \A t \in DOMAIN transactions :
          transactions[t].status \in {"pending", "posted", "reconciled", "void"}
    /\ Idle =>
          /\ \A c \in CreateOutcomes :
                LET status == c.payload.status
                    line_ok == /\ SoundButTags(c.payload.line, c.budget_id)
                               /\ ~ForeignTag(c.payload.line.tag_ids, c.budget_id)
                    unreadable == status # <<>> /\ Readings(status[1]) = {}
                IN /\ unreadable => (c.outcome.detail # OK /\ NothingWritten(c.outcome))
                   /\ (unreadable /\ line_ok) => c.outcome.detail = "Invalid status."
                   /\ c.outcome.detail = "Invalid status." => unreadable
                   /\ (~unreadable /\ line_ok
                       /\ ~RepeatsImportId(c.budget_id, c.payload)) =>
                         c.outcome.detail = OK
                   /\ c.outcome.detail = OK =>
                         LET stored == c.outcome.db.transactions[ids.txn + 1].status
                         IN IF status = <<>> THEN stored = "posted"
                            ELSE Readings(status[1]) = {stored}
          /\ \A u \in UpdateOutcomes :
                LET sent == IsSet(u.payload, "status")
                    null == sent /\ IsNull(u.payload, "status")
                    unreadable == sent /\ ~null /\ Readings(u.payload.status) = {}
                    first == /\ Addressed(u.budget_id, u.transaction_id)
                             /\ ~(IsSet(u.payload, "posted_at") /\ IsNull(u.payload, "posted_at"))
                IN /\ (null \/ unreadable) =>
                         (u.outcome.detail # OK /\ NothingWritten(u.outcome))
                   /\ (null /\ first) => u.outcome.detail = "Status is required."
                   /\ (unreadable /\ first) => u.outcome.detail = "Invalid status."
                   /\ u.outcome.detail = "Invalid status." => unreadable
                   /\ u.outcome.detail = "Status is required." => null
                   /\ u.outcome.detail = OK =>
                         LET stored == u.outcome.db.transactions[u.transaction_id].status
                         IN IF sent THEN Readings(u.payload.status) = {stored}
                            ELSE stored = transactions[u.transaction_id].status

\* a transaction created with the status ' VoID ' (the one request that sends
\* an aware posted_at) was stored as void, and an update of its status to
\* 'POSTED' was accepted and stored as posted
C23_Witness ==
    /\ response = [op |-> "update_transaction", detail |-> OK]
    /\ \E t \in DOMAIN transactions :
          /\ transactions[t].posted_at = AwareDatetime.t - AwareDatetime.off
          /\ transactions[t].status = "posted"

\* ------------------------------------------------------------------------
\* C24: transactions of another budget are invisible through budget B: get,
\* update and delete of a transaction id owned by another budget answer with
\* the same 'Transaction not found.' as for an id that does not exist, list
\* through B never contains them, and no operation addressed through B
\* changes a transaction, line or tag link owned by another budget.
\* ------------------------------------------------------------------------
\* the stored transactions that budget B does not own
OwnedByOthers(B) == {t \in DOMAIN transactions : transactions[t].budget_id # B}

\* an id no transaction has
NoSuchTransaction == ids.txn + 1

\* the transactions of the other budgets, their lines and their tag links
\* are in db what they are in the store
OthersKept(B, db) ==
    \A t \in OwnedByOthers(B) :
        /\ t \in DOMAIN db.transactions
        /\ db.transactions[t] = transactions[t]
        /\ LinesIn(db, t) = StoredLineIds(t)
        /\ \A l \in StoredLineIds(t) :
              /\ db.transaction_lines[l] = transaction_lines[l]
              /\ TagsIn(db, l) = StoredTagIds(l)

\* every request the model sends through a budget, with its outcome
AddressedOutcomes ==
    {[budget_id |-> c.budget_id, outcome |-> c.outcome] : c \in CreateOutcomes}
    \cup {[budget_id |-> c.budget_id, outcome |-> c.outcome] : c \in TransferOutcomes}
    \cup {[budget_id |-> c.budget_id, outcome |-> c.outcome] : c \in UpdateOutcomes}
    \cup {[budget_id |-> c.budget_id, outcome |-> c.outcome] : c \in SplitOutcomes}
    \cup {[budget_id |-> c.budget_id, outcome |-> c.outcome] : c \in DeleteOutcomes}
    \cup {[budget_id |-> c.budget_id,
           outcome |-> [detail |-> c.outcome.detail, db |-> c.outcome.db]] :
             c \in BulkOutcomes}
    \cup {[budget_id |-> b, outcome |-> delete_category(DB, b, c)] :
             b \in Budgets, c \in DOMAIN CategoryBudget}
    \cup {[budget_id |-> b, outcome |-> delete_payee(DB, b, p)] :
             b \in Budgets, p \in DOMAIN PayeeBudget}
    \cup {[budget_id |-> b, outcome |-> delete_tag(DB, b, g)] :
             b \in Budgets, g \in DOMAIN TagBudget}

C24_OtherBudgetsInvisible ==
    Idle =>
        /\ \A B \in Budgets : \A t \in OwnedByOthers(B) :
              /\ get_transaction(DB, B, t).detail = "Transaction not found."
              /\ get_transaction(DB, B, t) = get_transaction(DB, B, NoSuchTransaction)
              /\ delete_transaction(DB, B, t).detail = "Transaction not found."
              /\ delete_transaction(DB, B, t) = delete_transaction(DB, B, NoSuchTransaction)
        /\ \A u \in UpdateOutcomes :
              u.transaction_id \in OwnedByOthers(u.budget_id) =>
                 /\ u.outcome.detail = "Transaction not found."
                 /\ u.outcome =
                       update_transaction(DB, u.budget_id, NoSuchTransaction, u.payload, clock)
        /\ \A B \in Budgets :
              LET listed == list_transactions(DB, B)
              IN \A i \in DOMAIN listed :
                    /\ listed[i].id \notin OwnedByOthers(B)
                    /\ listed[i].budget_id = B
        /\ \A r \in AddressedOutcomes :
              /\ OthersKept(r.budget_id, r.outcome.db)
              /\ OthersKept(r.budget_id, StoreAfter(r.outcome))

\* a get through one budget of a transaction that another budget owns was
\* answered with 'Transaction not found.'; the budget has a transaction of
\* its own with a tagged line
C24_Witness ==
    /\ response.op = "get_transaction"
    /\ response.detail = TransactionNotFound
    /\ response.transaction_id \in OwnedByOthers(response.budget_id)
    /\ \E u \in DOMAIN transactions :
          /\ transactions[u].budget_id = response.budget_id
          /\ \E l \in StoredLineIds(u) : StoredTagIds(l) # {}

\* ------------------------------------------------------------------------
\* C25: after any sequence of category create, update and delete operations
\* the category hierarchy has depth at most 2: no category is its own
\* parent, no category that has a parent has children, and every parent
\* belongs to the same budget as its child; a request that would break this
\* is rejected and changes nothing.
\* ------------------------------------------------------------------------
\* the categories whose parent is p in the rows
ChildrenIn(rows, p) == {c \in DOMAIN rows : rows[c].parent_id = p}

\* the hierarchy of the rows has at most two levels, each within one budget
TwoLevels(rows) ==
    \A c \in DOMAIN rows :
        LET p == rows[c].parent_id
        IN /\ p # c
           /\ p # NULL =>
                 /\ p \in DOMAIN rows
                 /\ rows[p].budget_id = rows[c].budget_id
                 /\ rows[p].parent_id = NULL
                 /\ ChildrenIn(rows, c) = {}

\* category c of the budget under the parent p would break the hierarchy
BreaksHierarchy(budget_id, c, p) ==
    \/ p = c
    \/ p \notin DOMAIN categories
    \/ categories[p].budget_id # budget_id
    \/ categories[p].parent_id # NULL
    \/ ChildrenIn(categories, c) # {}

CategoryCreateOutcomes ==
    {[budget_id |-> b, payload |-> payload, outcome |-> create_category(DB, b, payload)] :
        b \in Budgets, payload \in CategoryCreatePayloads}

CategoryUpdateOutcomes ==
    {[budget_id |-> b, category_id |-> c, payload |-> payload,
      outcome |-> update_category(DB, b, c, payload)] :
        b \in Budgets, c \in ParentIds, payload \in CategoryUpdatePayloads}

\* no category of the budget but c has the name
NameFree(budget_id, name, c) ==
    \A d \in DOMAIN categories \ {c} :
        categories[d].budget_id = budget_id => categories[d].name # name

RowsIn(db, t) == [l \in LinesIn(db, t) |-> db.transaction_lines[l]]

\* db has the transactions and the lines of the store, every line as it is
\* stored but for the reference to the deleted entity, which is null
LinesKeptWithout(db, field, deleted) ==
    /\ db.transactions = transactions
    /\ DOMAIN db.transaction_lines = DOMAIN transaction_lines
    /\ \A l \in DOMAIN transaction_lines :
          LET before == transaction_lines[l]
              after == db.transaction_lines[l]
          IN /\ \A f \in DOMAIN before \ {field} : after[f] = before[f]
             /\ DOMAIN after = DOMAIN before
             /\ after[field] = IF before[field] = deleted THEN NULL ELSE before[field]
    /\ \A t \in DOMAIN transactions :
          TransferShape(RowsIn(db, t)) \/ NonTransferShape(RowsIn(db, t))

\* db has the rows of the table but the deleted one
RowsKeptWithout(db_rows, rows, deleted) ==
    /\ DOMAIN db_rows = DOMAIN rows \ {deleted}
    /\ \A x \in DOMAIN db_rows : db_rows[x] = rows[x]

EntityDeleteOutcomes ==
    {[entity |-> "category", budget_id |-> b, id |-> c,
      known |-> c \in DOMAIN categories /\ categories[c].budget_id = b,
      outcome |-> delete_category(DB, b, c)] : b \in Budgets, c \in ParentIds}
    \cup {[entity |-> "payee", budget_id |-> b, id |-> p,
           known |-> p \in DOMAIN payees /\ payees[p].budget_id = b,
           outcome |-> delete_payee(DB, b, p)] : b \in Budgets, p \in DOMAIN PayeeBudget}
    \cup {[entity |-> "tag", budget_id |-> b, id |-> g,
           known |-> g \in DOMAIN tags /\ tags[g].budget_id = b,
           outcome |-> delete_tag(DB, b, g)] : b \in Budgets, g \in DOMAIN TagBudget}

C26_EntityDeleteFrame ==
    Idle =>
        \A r \in EntityDeleteOutcomes :
            LET after == StoreAfter(r.outcome)
            IN /\ r.known <=> r.outcome.detail = OK
               /\ ~r.known => after = DB
               /\ (r.known /\ r.entity = "category") =>
                     /\ LinesKeptWithout(after, "category_id", r.id)
                     /\ after.transaction_line_tags = transaction_line_tags
                     /\ DOMAIN after.categories = DOMAIN categories \ {r.id}
                     /\ \A c \in DOMAIN after.categories :
                           /\ after.categories[c].budget_id = categories[c].budget_id
                           /\ after.categories[c].name = categories[c].name
                           /\ after.categories[c].parent_id =
                                 IF categories[c].parent_id = r.id THEN NULL
                                 ELSE categories[c].parent_id
                     /\ after.payees = payees
                     /\ after.tags = tags
               /\ (r.known /\ r.entity = "payee") =>
                     /\ LinesKeptWithout(after, "payee_id", r.id)
                     /\ after.transaction_line_tags = transaction_line_tags
                     /\ RowsKeptWithout(after.payees, payees, r.id)
                     /\ after.categories = categories
                     /\ after.tags = tags
               /\ (r.known /\ r.entity = "tag") =>
                     /\ after.transactions = transactions
                     /\ after.transaction_lines = transaction_lines
                     /\ after.transaction_line_tags =
                           {lt \in transaction_line_tags : lt[2] # r.id}
                     /\ RowsKeptWithout(after.tags, tags, r.id)
                     /\ after.categories = categories
                     /\ after.payees = payees

\* the parent category c1 was deleted: its child c3 has no parent, and the
\* two lines that had the category c1 are there without a category
C26_Witness ==
    /\ response = [op |-> "delete_category", detail |-> OK]
    /\ "c1" \notin DOMAIN categories
    /\ "c3" \in DOMAIN categories
    /\ categories["c3"].parent_id = NULL
    /\ DOMAIN transaction_lines = 1..6
    /\ transaction_lines[1].category_id = NULL
    /\ transaction_lines[6].category_id = NULL
    /\ transaction_lines[4].category_id = "c3"
    /\ commits = 1

\* ------------------------------------------------------------------------
\* C27: update_budget changes the base currency of a budget to any known
\* currency code, whether or not accounts reference the budget; when the
\* code changes, every account of the budget is deactivated and keeps its
\* currency code, and the accounts of other budgets are left alone.  (As
\* first stated: the base currency can be changed only while the budget has
\* no accounts, and is not changed once an account references the budget.)
\* ------------------------------------------------------------------------
\* the currency a submitted code stands for
CodeRead(code) ==
    IF code \in {"USD"} THEN "USD" ELSE IF code \in {"EUR", "eur"} THEN "EUR" ELSE "none"

AccountsOf(budget_id) == {a \in DOMAIN accounts : accounts[a].budget_id = budget_id}

BudgetUpdateOutcomes ==
    {[budget_id |-> b, updates |-> updates, user_id |-> u,
      outcome |-> update_budget(DB, b, updates, u)] :
        b \in Range(BudgetIds), updates \in BudgetUpdates, u \in Users}

\* the request is sent by a member of a budget that exists
ByMember(budget_id, user_id) ==
    budget_id \in DOMAIN budgets /\ user_id \in budgets[budget_id].members

\* the request would change the base currency of the budget
WouldChangeCurrency(r) ==
    /\ ByMember(r.budget_id, r.user_id)
    /\ "base_currency_code" \in DOMAIN r.updates
    /\ CodeRead(r.updates.base_currency_code) \notin
          {"none", budgets[r.budget_id].base_currency_code}

Matches(rows, budget_rows, a) ==
    rows[a].currency_code = budget_rows[rows[a].budget_id].base_currency_code

AccountCreateOutcomes ==
    {[budget_id |-> b, payload |-> payload, user_id |-> u,
      outcome |-> create_account(DB, b, payload, u)] :
        b \in Range(BudgetIds), payload \in AccountCreatePayloads, u \in Users}

AccountUpdateOutcomes ==
    {[budget_id |-> b, account_id |-> a, updates |-> updates, user_id |-> u,
      outcome |-> update_account(DB, b, a, updates, u)] :
        b \in Range(BudgetIds), a \in Range(AccountIds), updates \in AccountUpdates,
        u \in Users}

\* the submitted code is a known currency other than the budget's
OtherCurrency(budget_id, code) ==
    CodeRead(code) \notin {"none", budgets[budget_id].base_currency_code}

HeaderFields == {"budget_id", "posted_at", "status", "notes", "import_id", "created_at"}

LineFields ==
    {"transaction_id", "account_id", "category_id", "payee_id", "amount_minor", "memo"}

\* the line ids the patch targets
Targeted(payload) == {SentLines(payload)[i].line_id : i \in DOMAIN SentLines(payload)}

\* the fields of line l the patch names
NamedOf(payload, l) ==
    UNION {SentLines(payload)[i].set :
              i \in {j \in DOMAIN SentLines(payload) : SentLines(payload)[j].line_id = l}}

LinksOf(links, l) == {lt[2] : lt \in {x \in links : x[1] = l}}

\* what the patch does not name is in `after` as it is in the store
OnlyNamedChanged(after, transaction_id, payload) ==
    /\ DOMAIN after.transactions = DOMAIN transactions
    /\ \A t \in DOMAIN transactions \ {transaction_id} :
          after.transactions[t] = transactions[t]
    /\ \A f \in HeaderFields \ (payload.set \cap {"posted_at", "status", "notes"}) :
          after.transactions[transaction_id][f] = transactions[transaction_id][f]
    /\ DOMAIN after.transaction_lines = DOMAIN transaction_lines
    /\ \A l \in DOMAIN transaction_lines :
          /\ after.transaction_lines[l].transaction_id = transaction_lines[l].transaction_id
          /\ \A f \in LineFields \ NamedOf(payload, l) :
                after.transaction_lines[l][f] = transaction_lines[l][f]
          /\ "tag_ids" \notin NamedOf(payload, l) =>
                LinksOf(after.transaction_line_tags, l) = StoredTagIds(l)
          /\ l \notin Targeted(payload) =>
                after.transaction_lines[l] = transaction_lines[l]
    /\ {l \in DOMAIN after.transaction_lines :
           after.transaction_lines[l].transaction_id = transaction_id} =
       StoredLineIds(transaction_id)
    /\ after.accounts = accounts /\ after.categories = categories
    /\ after.payees = payees /\ after.tags = tags

C29_UpdateChangesOnlyNamed ==
    Idle =>
        \A u \in UpdateOutcomes :
            u.outcome.detail = OK =>
                /\ OnlyNamedChanged(u.outcome.db, u.transaction_id, u.payload)
                /\ OnlyNamedChanged(StoreAfter(u.outcome), u.transaction_id, u.payload)

\* an update was accepted, and the store holds a transaction of two lines
\* with a tag link for which one more accepted update changes the memo of one
\* line and nothing else while the other line carries the tag link
C29_Witness ==
    /\ response = [op |-> "update_transaction", detail |-> OK]
    /\ \E u \in UpdateOutcomes :
          /\ u.outcome.detail = OK
          /\ Cardinality(StoredLineIds(u.transaction_id)) = 2
          /\ Cardinality(Targeted(u.payload)) = 1
          /\ \E l \in StoredLineIds(u.transaction_id) \ Targeted(u.payload) :
                StoredTagIds(l) # {}
          /\ u.outcome.db.transaction_lines # transaction_lines

\* ------------------------------------------------------------------------
\* C30: a bulk-import draft whose import_id already exists in the budget
\* leaves the existing transaction untouched: its header, lines, amounts and
\* tag links are the same after the import as before, even when the draft's
\* content differs from the stored transaction.
\* ------------------------------------------------------------------------
\* the stored transactions of the budget a draft of the batch names
NamedByDraft(budget_id, drafts) ==
    {t \in DOMAIN transactions :
        /\ transactions[t].budget_id = budget_id
        /\ transactions[t].import_id # NULL
        /\ \E i \in DOMAIN drafts : drafts[i].import_id = transactions[t].import_id}

\* transaction t is in `after` as it is in the store
Untouched(after, t) ==
    /\ t \in DOMAIN after.transactions
    /\ after.transactions[t] = transactions[t]
    /\ {l \in DOMAIN after.transaction_lines :
           after.transaction_lines[l].transaction_id = t} = StoredLineIds(t)
    /\ \A l \in StoredLineIds(t) :
          /\ after.transaction_lines[l] = transaction_lines[l]
          /\ {tg \in DOMAIN tags : <<l, tg>> \in after.transaction_line_tags} =
                StoredTagIds(l)

\* the draft does not say what the stored transaction t holds
DraftDiffers(draft, t) ==
    \/ draft.notes # transactions[t].notes
    \/ \E l \in StoredLineIds(t) :
          \/ draft.line.amount_minor # transaction_lines[l].amount_minor
          \/ draft.line.account_id # transaction_lines[l].account_id
          \/ Range(draft.line.tag_ids) # StoredTagIds(l)

C30_ExistingImportUntouched ==
    Idle =>
        \A c \in BulkOutcomes :
            \A t \in NamedByDraft(c.budget_id, c.payload.transactions) :
                /\ Untouched(c.outcome.db, t)
                /\ Untouched(StoreAfter(c.outcome), t)

\* an import was accepted that skipped one draft and created another, and
\* the skipped draft names a stored transaction with another amount on
\* another account
C30_Witness ==
    /\ response.op = "bulk_import_transactions"
    /\ response.detail = OK
    /\ response.created_count = 1
    /\ response.existing_count = 1
    /\ \E t \in DOMAIN transactions :
          /\ transactions[t].budget_id = "b1"
          /\ transactions[t].import_id = "i1"
          /\ DraftDiffers(BulkDraft("i1", PlainLine("a2", 1)), t)
          /\ \A l \in StoredLineIds(t) : transaction_lines[l].amount_minor = -1
    /\ \E t \in DOMAIN transactions : transactions[t].import_id = "i2"

====
